---- MODULE Spec2Model ----
(***************************************************************************)
(* Verification model of deep-facility (python).                           *)
(*                                                                         *)
(*   Spec      ScientificWorkflow.process_locations (flows.py): the two    *)
(*             pool stages, their completion callbacks, the stop signal    *)
(*             of the results Operation and the per-location files.        *)
(*   SpecPrep  DataPrepWorkflow.prepare_inputs (flows.py) with             *)
(*             DataInputs.prepare_households and process_google_buildings  *)
(*             (data/inputs.py), the stop signal of the inputs Operation   *)
(*             and the input files.                                        *)
(***************************************************************************)
EXTENDS Integers, Sequences, FiniteSets, TLC

(***************************************************************************)
(* Bounds of the model.                                                    *)
(***************************************************************************)
\* number of locations of a run (cfg.locations)
MaxLocs == 2
\* number of times the results directory of a location is removed from
\* outside while the run is in progress
MaxRemovals == 1
\* number of building points of the buildings file
MaxPoints == 2
\* coordinates of the building points are the cells 0 .. MaxCoord
MaxCoord == 0
\* number of administrative polygons of the shapes file
MaxShapes == 2
\* largest chunk size tried (the code's chunk_size is 1000000)
MaxChunkSize == 2
\* number of times prepare_inputs is run on the same input directory
MaxRuns == 2

VARIABLES
    \* ---- the Operation the workflow runs under (config.py: Operation) ----
    control_file,   \* [exists, mtime] of Operation.control_file
    log_file,       \* [exists, atime, mtime] of Operation.log_file
    clock,          \* the file system's time
    handlers,       \* TRUE while the Operation's logger has its handlers
    \* ---- ScientificWorkflow.process_locations (flows.py) ----
    locations,      \* cfg.locations
    pc,             \* position of the thread running process_locations
    idx,            \* position of the submission loop
    exc,            \* exception unwinding the `with PoolExecutor()` block
    fts,            \* clustering futures: "none", "pending" or the outcome
    cbs,            \* clustering callbacks: "none", "attached", "ran"
    hh_cc,          \* locations captured by the clustering callback, in order
    valid,          \* validate_clusters: valid locations, in order
    failed,         \* the failed list
    ofts,           \* outline/place futures: "none", "pending" or the outcome
    ocbs,           \* outline/place callbacks: "none", "attached", "ran"
    results_dict,   \* outline_and_place: sequence of [loc, res]
    files,          \* per-location result files on disk
    final_results,  \* [set, locs]: None or the merged locations
    outcome,        \* "running", "returned", "stopped", "raised"
    stop_pc,        \* history: pc at which the stop signal was set
    cancel_stage,   \* history: stage in progress when cancellation unwound
    removals,       \* history: number of external removals so far
    \* ---- DataPrepWorkflow.prepare_inputs (flows.py, data/inputs.py) ----
    df_xy,          \* the building points, one coordinate per row
    gdf_shapes,     \* the administrative polygons: adm -> set of cells
    chunk_size,     \* chunk size of process_google_buildings
    has_baseline,   \* cfg.args.has_baseline()
    in_files,       \* the input files on disk: name -> [state, rows]
    ppc,            \* position of the thread running prepare_inputs
    p,              \* chunk index of process_google_buildings
    df_hh,          \* [set, rows]: the table accumulated over the chunks
    hh_table,       \* [set, rows]: the table process_google_buildings returned
    prep_ret,       \* [hh_file, ok]: what prepare_inputs returned
    prep_outcome,   \* "idle", "running", "returned", "stopped", "raised"
    hh_ret,         \* history: path returned by prepare_households
    inputs_read,    \* history: number of times the input data was loaded
    skipped,        \* history: prepare_households found the file present
    cancelled_at,   \* history: stop check that raised the cancellation
    joined,         \* history: row numbers handed to join_xy_shapes, in order
    runs,           \* history: number of prepare_inputs calls so far
    \* ---- the stop signal and the log file (config.py, ux/main.py) ----
    atime_mode,     \* how the file system updates access times on a read
    stop_called,    \* history: stop() was called and not cleared since
    polled,         \* result of the is_stopped() calls since the last stop()
    \* ---- clustering.cluster_houses_by_villages_centers of one location ----
    df_slices,      \* [households, centers]: row counts of the two slices
    km_model,       \* [n_iter, max_iter, raises]: what kmeans_fit gives
    ch,             \* the ClusteredHouseholds instance
    tpc,            \* position of the task
    fit_calls,      \* history: number of calls of spatial.kmeans_fit
    converged,      \* what cluster_points returned ("unset" before)
    \* ---- commands.cmd_run ----
    cmd_in,         \* [cli, has_locations, ret]: ret is what process_locations returns
    cmd_pc,         \* position of cmd_run
    cmd_log,        \* messages given to cfg.results.logger
    cmd_ret,        \* "unset", TRUE, FALSE or the exception raised
    \* ---- outlines.merge_result_data ----
    mg_in,          \* [kind, tables]: the per-location tables of one kind
    mg_out,         \* [set, rows]: the merged table
    \* ---- per-location files of distinct locations (spatial.location_path,
    \*      placement.place_facilities, outlines.merge_result_data) ----
    fc_locs,        \* the locations, each a sequence of admin names
    fc_counts,      \* number of facilities placed for each location
    disk,           \* the facilities files on disk: set of [path, rows]
    fc_results,     \* results dict: sequence of [loc, facilities_file]
    fc_merged,      \* [set, rows]: the merged facilities table
    \* ---- one pool stage with its callbacks step by step (flows.py) ----
    pool_kind,      \* "process" or "thread": what PoolExecutor is
    pl_pc,          \* position of the submission loop
    pl_idx,         \* location the submission loop is at
    pl_fts,         \* futures: "none", "pending", "ch" or "error"
    pl_cbs,         \* callbacks: "none", "attached", "running", "ran"
    pl_thread,      \* thread running the callback of a location
    pl_hh_cc,       \* hh_cc: locations captured so far
    done_perc,      \* the progress counter
    pl_new_perc,    \* value report_progress is about to return, per location
    \* ---- the household counts of the clusters (clustering.py, flows.py) ----
    th_in,          \* [clusters, threshold, perc]: cluster labels of the rows
    th_counts,      \* [set, table, ok]: what _calc_counts computed
    th_check,       \* [set, table, ok]: what check_thresholds computed
    \* ---- placement.place_facilities of one location ----
    pf_in,          \* [groups, n_facilities]: sizes of the cluster groups
    pf_i,           \* the group the loop is at
    pf_facilities,  \* optimal_facilities: the centers of each group so far
    pf_calls,       \* history: the calls of kmeans_fit, [group, n_clusters]
    pf_state,       \* "idle", "running", "returned" or the exception raised
    \* ---- distances to the nearest facility (tasks/distance.py) ----
    ds_in,          \* [locations, facilities]: the two tables
    ds_nearest,     \* [set, indices, distances]: find_nearest_facility's result
    ds_out,         \* [set, rows]: what calculate_distance_df returned
    \* ---- the session and its background task (ux/session.py, ux/main.py) ----
    sess,           \* [operation, prev_stopped, stop_after_start]
    bg_task,        \* [state, first_check, orphan]: the task added last
    ctl_under_results \* the control file lies under results.root_dir

opvars  == <<control_file, log_file, clock, handlers>>
runvars == <<locations, pc, idx, exc, fts, cbs, hh_cc, valid, failed, ofts,
             ocbs, results_dict, files, final_results, outcome, stop_pc,
             cancel_stage, removals>>
prepvars == <<df_xy, gdf_shapes, chunk_size, has_baseline, in_files, ppc, p,
              df_hh, hh_table, prep_ret, prep_outcome, hh_ret, inputs_read,
              skipped, cancelled_at, joined, runs>>
stopvars == <<atime_mode, stop_called, polled>>
clvars   == <<df_slices, km_model, ch, tpc, fit_calls, converged>>
cmdvars  == <<cmd_in, cmd_pc, cmd_log, cmd_ret>>
mgvars   == <<mg_in, mg_out>>
fcvars   == <<fc_locs, fc_counts, disk, fc_results, fc_merged>>
poolvars == <<pool_kind, pl_pc, pl_idx, pl_fts, pl_cbs, pl_thread, pl_hh_cc,
              done_perc, pl_new_perc>>
thvars   == <<th_in, th_counts, th_check>>
pfvars   == <<pf_in, pf_i, pf_facilities, pf_calls, pf_state>>
dsvars   == <<ds_in, ds_nearest, ds_out>>
ssvars   == <<sess, bg_task, ctl_under_results>>
calcvars == <<thvars, pfvars, dsvars, ssvars>>
restvars == <<stopvars, clvars, cmdvars, mgvars, fcvars, poolvars>>
auxvars  == <<restvars, calcvars>>
vars    == <<opvars, runvars, prepvars, auxvars>>

Locs == 1 .. MaxLocs

ClusterFiles == {"clusters", "centers", "counts"}
PlaceFiles   == {"shapes", "facilities", "plot"}

Range(s) == {s[i] : i \in 1 .. Len(s)}

(***************************************************************************)
(* Operation (config/config.py)                                            *)
(***************************************************************************)

\* Operation.__post_init__ and the logger property: the control file is
\* unlinked, the log file is created by the file handler.
InitOperation ==
    /\ control_file = [exists |-> FALSE, mtime |-> 0]
    /\ log_file = [exists |-> TRUE, atime |-> 0, mtime |-> 0]
    /\ clock = 0
    /\ handlers = TRUE

\* Operation.is_stopped
IsStoppedNever == FALSE
is_stopped ==
    IF ~control_file.exists
    THEN FALSE
    ELSE LET ts0 == IF log_file.exists THEN log_file.atime ELSE 0
             ts1 == IF control_file.exists THEN control_file.mtime ELSE 0
         IN  ts1 >= ts0

\* Operation.stop: touch the control file
stop ==
    control_file' = [exists |-> TRUE, mtime |-> clock]

\* Operation.cleanup
cleanup ==
    handlers' = FALSE

(***************************************************************************)
(* ClusteredHouseholds and the clustering task (tasks/clustering.py)       *)
(***************************************************************************)

\* What a location's household and village-center slices are like.
ClusterKinds == {"converged", "not_converged", "empty_households",
                 "empty_centers", "value_error", "raises"}

\* cluster_houses_by_villages_centers: the task's outcome, a
\* ClusteredHouseholds (by its valid flag) or an exception.
cluster_houses_by_villages_centers(kind) ==
    CASE kind \in {"empty_households", "empty_centers"} -> "ch_invalid"
      [] kind = "value_error"                            -> "ch_invalid"
      [] kind = "converged"                              -> "ch_converged"
      [] kind = "not_converged"                          -> "ch_not_converged"
      [] kind = "raises"                                 -> "error"

\* ClusteredHouseholds.valid of the future's result: the converged flag is
\* only required not to be None
ChValidConvergedOnly(l) == fts[l] = "ch_converged"
ChValid(l) == fts[l] \in {"ch_converged", "ch_not_converged"}

(***************************************************************************)
(* ScientificWorkflow.cluster_households (flows.py)                        *)
(***************************************************************************)

\* `with PoolExecutor() as executor` leaves through shutdown(wait=True):
\* every submitted future is finished and every attached callback has run.
PoolDrainedNoWait(f, c) == TRUE
PoolDrained(f, c) ==
    \A l \in Locs : f[l] # "pending" /\ c[l] # "attached"

\* cluster_households.process_future.  An exception raised by the callback
\* (ft.result() re-raising the task's exception, ValueError of save()) is
\* logged and dropped by concurrent.futures.
ClusterProcessFuture(l) ==
    /\ cbs' = [cbs EXCEPT ![l] = "ran"]
    /\ IF is_stopped \/ fts[l] = "error" \/ ~ChValid(l)
       THEN UNCHANGED <<hh_cc, files>>
       ELSE /\ files' = [files EXCEPT ![l] = @ \cup ClusterFiles]
            /\ hh_cc' = Append(hh_cc, l)

\* line 236: raise_if_stopped before the submission
ClusterCheckBefore ==
    /\ pc = "cl_check1"
    /\ IF is_stopped
       THEN pc' = "cl_exit" /\ exc' = "InterruptedError"
       ELSE pc' = "cl_submit" /\ exc' = exc
    /\ UNCHANGED <<locations, idx, fts, cbs, hh_cc, valid, failed, ofts, ocbs,
                   results_dict, files, final_results, outcome, stop_pc,
                   cancel_stage, removals>>
    /\ UNCHANGED <<opvars, prepvars, auxvars>>

\* lines 238-247: executor.submit
ClusterSubmit ==
    /\ pc = "cl_submit"
    /\ fts' = [fts EXCEPT ![locations[idx]] = "pending"]
    /\ pc' = "cl_check2"
    /\ UNCHANGED <<locations, idx, exc, cbs, hh_cc, valid, failed, ofts, ocbs,
                   results_dict, files, final_results, outcome, stop_pc,
                   cancel_stage, removals>>
    /\ UNCHANGED <<opvars, prepvars, auxvars>>

\* line 249: raise_if_stopped between submit and add_done_callback
ClusterCheckAfter ==
    /\ pc = "cl_check2"
    /\ IF is_stopped
       THEN pc' = "cl_exit" /\ exc' = "InterruptedError"
       ELSE pc' = "cl_addcb" /\ exc' = exc
    /\ UNCHANGED <<locations, idx, fts, cbs, hh_cc, valid, failed, ofts, ocbs,
                   results_dict, files, final_results, outcome, stop_pc,
                   cancel_stage, removals>>
    /\ UNCHANGED <<opvars, prepvars, auxvars>>

\* line 250: add_done_callback; a finished future runs the callback at once
ClusterAddCallback ==
    /\ pc = "cl_addcb"
    /\ LET l == locations[idx]
       IN  IF fts[l] = "pending"
           THEN /\ cbs' = [cbs EXCEPT ![l] = "attached"]
                /\ UNCHANGED <<hh_cc, files>>
           ELSE ClusterProcessFuture(l)
    /\ IF idx < Len(locations)
       THEN idx' = idx + 1 /\ pc' = "cl_check1"
       ELSE idx' = idx /\ pc' = "cl_exit"
    /\ UNCHANGED <<locations, exc, fts, valid, failed, ofts, ocbs,
                   results_dict, final_results, outcome, stop_pc,
                   cancel_stage, removals>>
    /\ UNCHANGED <<opvars, prepvars, auxvars>>

\* a worker runs clustering.cluster_houses_by_villages_centers
ClusterTask(l) ==
    /\ fts[l] = "pending"
    /\ \E kind \in ClusterKinds :
          fts' = [fts EXCEPT ![l] = cluster_houses_by_villages_centers(kind)]
    /\ UNCHANGED <<locations, pc, idx, exc, cbs, hh_cc, valid, failed, ofts,
                   ocbs, results_dict, files, final_results, outcome, stop_pc,
                   cancel_stage, removals>>
    /\ UNCHANGED <<opvars, prepvars, auxvars>>

\* the pool runs the callback attached to a finished future
ClusterCallback(l) ==
    /\ fts[l] \notin {"none", "pending"}
    /\ cbs[l] = "attached"
    /\ ClusterProcessFuture(l)
    /\ UNCHANGED <<locations, pc, idx, exc, fts, valid, failed, ofts, ocbs,
                   results_dict, final_results, outcome, stop_pc,
                   cancel_stage, removals>>
    /\ UNCHANGED <<opvars, prepvars, auxvars>>

\* line 207/252: the `with` block is left, normally or by InterruptedError
ClusterExit ==
    /\ pc = "cl_exit"
    /\ PoolDrained(fts, cbs)
    /\ IF exc = "InterruptedError"
       THEN pc' = "except" /\ cancel_stage' = "cluster"
       ELSE pc' = "validate" /\ cancel_stage' = cancel_stage
    /\ UNCHANGED <<locations, idx, exc, fts, cbs, hh_cc, valid, failed, ofts,
                   ocbs, results_dict, files, final_results, outcome, stop_pc,
                   removals>>
    /\ UNCHANGED <<opvars, prepvars, auxvars>>

(***************************************************************************)
(* ScientificWorkflow.validate_clusters (flows.py)                         *)
(***************************************************************************)

\* the locations of a sequence whose ClusteredHouseholds is valid / invalid
RECURSIVE ValidOf(_)
ValidOf(s) ==
    IF s = <<>> THEN <<>>
    ELSE IF ChValid(Head(s)) THEN <<Head(s)>> \o ValidOf(Tail(s))
         ELSE ValidOf(Tail(s))

RECURSIVE InvalidOf(_)
InvalidOf(s) ==
    IF s = <<>> THEN <<>>
    ELSE IF ChValid(Head(s)) THEN InvalidOf(Tail(s))
         ELSE <<Head(s)>> \o InvalidOf(Tail(s))

\* lines 412-414: the three assertions on a valid location's files
FilesAsserted(l) == ClusterFiles \subseteq files[l]

\* line 167: valid, failed = self.validate_clusters(chs)
ValidateClusters ==
    /\ pc = "validate"
    /\ IF \E l \in Range(hh_cc) : ChValid(l) /\ ~FilesAsserted(l)
       THEN /\ outcome' = "raised"
            /\ exc' = "AssertionError"
            /\ pc' = "done"
            /\ UNCHANGED <<valid, failed, idx>>
       ELSE /\ valid' = ValidOf(hh_cc)
            /\ failed' = InvalidOf(hh_cc)
            /\ idx' = 1
            /\ pc' = IF ValidOf(hh_cc) = <<>> THEN "op_exit" ELSE "op_check"
            /\ UNCHANGED <<outcome, exc>>
    /\ UNCHANGED <<locations, fts, cbs, hh_cc, ofts, ocbs, results_dict,
                   files, final_results, stop_pc, cancel_stage, removals>>
    /\ UNCHANGED <<opvars, prepvars, auxvars>>

(***************************************************************************)
(* ScientificWorkflow.outline_and_place (flows.py)                         *)
(***************************************************************************)

\* how the outline, placement and distance computations of a location go
PlaceKinds == {"ok", "raises"}

\* outline_and_place.process_future.  An exception raised by ft.result()
\* inside the callback is logged and dropped by concurrent.futures.
PlaceProcessFuture(l) ==
    /\ ocbs' = [ocbs EXCEPT ![l] = "ran"]
    /\ IF is_stopped \/ ofts[l] \in {"error", "InterruptedError"}
       THEN UNCHANGED results_dict
       ELSE results_dict' = Append(results_dict, [loc |-> l, res |-> ofts[l]])

\* line 286: raise_if_stopped before the submission
PlaceCheck ==
    /\ pc = "op_check"
    /\ IF is_stopped
       THEN pc' = "op_exit" /\ exc' = "InterruptedError"
       ELSE pc' = "op_submit" /\ exc' = exc
    /\ UNCHANGED <<locations, idx, fts, cbs, hh_cc, valid, failed, ofts, ocbs,
                   results_dict, files, final_results, outcome, stop_pc,
                   cancel_stage, removals>>
    /\ UNCHANGED <<opvars, prepvars, auxvars>>

\* lines 288-297: executor.submit and add_done_callback
PlaceSubmit ==
    /\ pc = "op_submit"
    /\ ofts' = [ofts EXCEPT ![valid[idx]] = "pending"]
    /\ ocbs' = [ocbs EXCEPT ![valid[idx]] = "attached"]
    /\ IF idx < Len(valid)
       THEN idx' = idx + 1 /\ pc' = "op_check"
       ELSE idx' = idx /\ pc' = "op_exit"
    /\ UNCHANGED <<locations, exc, fts, cbs, hh_cc, valid, failed,
                   results_dict, files, final_results, outcome, stop_pc,
                   cancel_stage, removals>>
    /\ UNCHANGED <<opvars, prepvars, auxvars>>

\* a worker runs outline_and_place_clustered_households (lines 301-399)
PlaceTask(l) ==
    /\ ofts[l] = "pending"
    /\ IF ~(ChValid(l) /\ "clusters" \in files[l])
       THEN \* lines 319-320
            /\ ofts' = [ofts EXCEPT ![l] = "None"]
            /\ UNCHANGED files
       ELSE \E kind \in PlaceKinds :
               IF kind = "raises"
               THEN /\ ofts' = [ofts EXCEPT ![l] = "error"]
                    /\ UNCHANGED files
               ELSE IF is_stopped
               THEN \* line 357, after the shapes and the distances are saved
                    /\ ofts' = [ofts EXCEPT ![l] = "InterruptedError"]
                    /\ files' = [files EXCEPT ![l] =
                                    @ \cup {"shapes", "clusters", "centers"}]
               ELSE /\ ofts' = [ofts EXCEPT ![l] = "ResultFiles"]
                    /\ files' = [files EXCEPT ![l] =
                                    @ \cup {"clusters", "centers"} \cup PlaceFiles]
    /\ UNCHANGED <<locations, pc, idx, exc, fts, cbs, hh_cc, valid, failed,
                   ocbs, results_dict, final_results, outcome, stop_pc,
                   cancel_stage, removals>>
    /\ UNCHANGED <<opvars, prepvars, auxvars>>

\* the pool runs the callback attached to a finished future
PlaceCallback(l) ==
    /\ ofts[l] \notin {"none", "pending"}
    /\ ocbs[l] = "attached"
    /\ PlaceProcessFuture(l)
    /\ UNCHANGED <<locations, pc, idx, exc, fts, cbs, hh_cc, valid, failed,
                   ofts, files, final_results, outcome, stop_pc,
                   cancel_stage, removals>>
    /\ UNCHANGED <<opvars, prepvars, auxvars>>

\* line 283/299: the `with` block is left, normally or by InterruptedError
PlaceExit ==
    /\ pc = "op_exit"
    /\ PoolDrained(ofts, ocbs)
    /\ IF exc = "InterruptedError"
       THEN pc' = "except" /\ cancel_stage' = "place"
       ELSE pc' = "results_loop" /\ cancel_stage' = cancel_stage
    /\ UNCHANGED <<locations, idx, exc, fts, cbs, hh_cc, valid, failed, ofts,
                   ocbs, results_dict, files, final_results, outcome, stop_pc,
                   removals>>
    /\ UNCHANGED <<opvars, prepvars, auxvars>>

(***************************************************************************)
(* ScientificWorkflow.process_locations (flows.py)                         *)
(***************************************************************************)

\* index of the first entry of the results whose value is falsy, 0 if none
FirstNone(rs) ==
    IF \E i \in 1 .. Len(rs) : rs[i].res = "None"
    THEN CHOOSE i \in 1 .. Len(rs) :
            /\ rs[i].res = "None"
            /\ \A j \in 1 .. (i - 1) : rs[j].res # "None"
    ELSE 0

RemoveAt(s, i) == SubSeq(s, 1, i - 1) \o SubSeq(s, i + 1, Len(s))

\* lines 174-179: `for loc, res in results.items()`.  Deleting a key while
\* the dict is iterated makes the next step of the iteration raise
\* RuntimeError, which is not an InterruptedError.
ResultsLoop ==
    /\ pc = "results_loop"
    /\ LET i == FirstNone(results_dict)
       IN  IF i = 0
           THEN /\ pc' = "premerge"
                /\ UNCHANGED <<results_dict, failed, outcome, exc>>
           ELSE /\ results_dict' = RemoveAt(results_dict, i)
                /\ failed' = Append(failed, results_dict[i].loc)
                /\ exc' = "RuntimeError"
                /\ outcome' = "raised"
                /\ pc' = "done"
    /\ UNCHANGED <<locations, idx, fts, cbs, hh_cc, valid, ofts, ocbs, files,
                   final_results, stop_pc, cancel_stage, removals>>
    /\ UNCHANGED <<opvars, prepvars, auxvars>>

\* line 183: raise_if_stopped before the merge
PreMergeCheck ==
    /\ pc = "premerge"
    /\ IF is_stopped
       THEN pc' = "except" /\ exc' = "InterruptedError"
            /\ cancel_stage' = "merge"
       ELSE pc' = "merge" /\ exc' = exc /\ cancel_stage' = cancel_stage
    /\ UNCHANGED <<locations, idx, fts, cbs, hh_cc, valid, failed, ofts, ocbs,
                   results_dict, files, final_results, outcome, stop_pc,
                   removals>>
    /\ UNCHANGED <<opvars, prepvars, auxvars>>

\* lines 185-186 and 192: process_results, then `return final_results, failed`
Merge ==
    /\ pc = "merge"
    /\ final_results' =
          IF Len(results_dict) > 0
          THEN [set |-> TRUE,
                locs |-> {results_dict[i].loc : i \in 1 .. Len(results_dict)}]
          ELSE [set |-> FALSE, locs |-> {}]
    /\ outcome' = "returned"
    /\ pc' = "done"
    /\ UNCHANGED <<locations, idx, exc, fts, cbs, hh_cc, valid, failed, ofts,
                   ocbs, results_dict, files, stop_pc, cancel_stage, removals>>
    /\ UNCHANGED <<opvars, prepvars, auxvars>>

\* lines 188-190: except InterruptedError: cleanup(); return None, False
Except ==
    /\ pc = "except"
    /\ cleanup
    /\ outcome' = "stopped"
    /\ pc' = "done"
    /\ UNCHANGED <<locations, idx, exc, fts, cbs, hh_cc, valid, failed, ofts,
                   ocbs, results_dict, files, final_results, stop_pc,
                   cancel_stage, removals>>
    /\ UNCHANGED <<control_file, log_file, clock>>
    /\ UNCHANGED <<prepvars, auxvars>>

(***************************************************************************)
(* The environment of a run                                                *)
(***************************************************************************)

\* Session.stop_task -> Operation.stop while the run is in progress
StopRun ==
    /\ outcome = "running"
    /\ ~control_file.exists
    /\ stop
    /\ stop_pc' = pc
    /\ UNCHANGED <<log_file, clock, handlers>>
    /\ UNCHANGED <<locations, pc, idx, exc, fts, cbs, hh_cc, valid, failed,
                   ofts, ocbs, results_dict, files, final_results, outcome,
                   cancel_stage, removals>>
    /\ UNCHANGED <<prepvars, auxvars>>

\* Results.remove_files (shutil.rmtree of the run directory, called by the
\* /run and /prep requests) reaching the directory of a location while the
\* run is in progress
RemoveFiles(l) ==
    /\ outcome = "running"
    /\ removals < MaxRemovals
    /\ files[l] # {}
    /\ files' = [files EXCEPT ![l] = {}]
    /\ removals' = removals + 1
    /\ UNCHANGED <<locations, pc, idx, exc, fts, cbs, hh_cc, valid, failed,
                   ofts, ocbs, results_dict, final_results, outcome, stop_pc,
                   cancel_stage>>
    /\ UNCHANGED <<opvars, prepvars, auxvars>>

(***************************************************************************)
(* Specification of a run                                                  *)
(***************************************************************************)

InitRun ==
    /\ \E n \in 1 .. MaxLocs : locations = [i \in 1 .. n |-> i]
    /\ pc = "cl_check1"
    /\ idx = 1
    /\ exc = "none"
    /\ fts = [l \in Locs |-> "none"]
    /\ cbs = [l \in Locs |-> "none"]
    /\ hh_cc = <<>>
    /\ valid = <<>>
    /\ failed = <<>>
    /\ ofts = [l \in Locs |-> "none"]
    /\ ocbs = [l \in Locs |-> "none"]
    /\ results_dict = <<>>
    /\ files = [l \in Locs |-> {}]
    /\ final_results = [set |-> FALSE, locs |-> {}]
    /\ outcome = "running"
    /\ stop_pc = "none"
    /\ cancel_stage = "none"
    /\ removals = 0

\* prepare_inputs is not running
PrepIdle ==
    /\ df_xy = <<>>
    /\ gdf_shapes = <<>>
    /\ chunk_size = 1
    /\ has_baseline = FALSE
    /\ in_files = <<>>
    /\ ppc = "idle"
    /\ p = 0
    /\ df_hh = [set |-> FALSE, rows |-> <<>>]
    /\ hh_table = [set |-> FALSE, rows |-> <<>>]
    /\ prep_ret = [hh_file |-> "unset", ok |-> FALSE]
    /\ prep_outcome = "idle"
    /\ hh_ret = "unset"
    /\ inputs_read = 0
    /\ skipped = FALSE
    /\ cancelled_at = "none"
    /\ joined = <<>>
    /\ runs = 0

\* no stop signal is being followed across log reads
StopIdle ==
    /\ atime_mode = "noatime"
    /\ stop_called = FALSE
    /\ polled = "none"

\* no clustering task is being followed step by step
ClIdle ==
    /\ df_slices = [households |-> 0, centers |-> 0]
    /\ km_model = [n_iter |-> 0, max_iter |-> 1, raises |-> FALSE]
    /\ ch = [made |-> FALSE]
    /\ tpc = "idle"
    /\ fit_calls = 0
    /\ converged = "unset"

\* cmd_run is not running
CmdIdle ==
    /\ cmd_in = [cli |-> FALSE, has_locations |-> FALSE]
    /\ cmd_pc = "idle"
    /\ cmd_log = <<>>
    /\ cmd_ret = "unset"

\* merge_result_data is not running
MgIdle ==
    /\ mg_in = [kind |-> "none", tables |-> <<>>]
    /\ mg_out = [set |-> FALSE, rows |-> <<>>]

\* no per-location facilities file is being followed
FcIdle ==
    /\ fc_locs = <<>>
    /\ fc_counts = <<>>
    /\ disk = {}
    /\ fc_results = <<>>
    /\ fc_merged = [set |-> FALSE, rows |-> <<>>]

\* no pool stage is being followed step by step
PoolIdle ==
    /\ pool_kind = "none"
    /\ pl_pc = "idle"
    /\ pl_idx = 1
    /\ pl_fts = [l \in Locs |-> "none"]
    /\ pl_cbs = [l \in Locs |-> "none"]
    /\ pl_thread = [l \in Locs |-> "none"]
    /\ pl_hh_cc = <<>>
    /\ done_perc = 0
    /\ pl_new_perc = [l \in Locs |-> 0]

\* no counts table is being computed
ThIdle ==
    /\ th_in = [clusters |-> <<>>, threshold |-> -1, perc |-> -1]
    /\ th_counts = [set |-> FALSE, table |-> {}, ok |-> FALSE]
    /\ th_check = [set |-> FALSE, table |-> {}, ok |-> FALSE]

\* no placement is being followed group by group
PfIdle ==
    /\ pf_in = [groups |-> <<>>, n_facilities |-> 1]
    /\ pf_i = 1
    /\ pf_facilities = <<>>
    /\ pf_calls = <<>>
    /\ pf_state = "idle"

\* no distance is being computed
DsIdle ==
    /\ ds_in = [locations |-> <<>>, facilities |-> <<>>]
    /\ ds_nearest = [set |-> FALSE, indices |-> <<>>, distances |-> <<>>]
    /\ ds_out = [set |-> FALSE, rows |-> <<>>]

\* no session is being followed
SsIdle ==
    /\ sess = [operation |-> "None", prev_stopped |-> FALSE,
               stop_after_start |-> FALSE]
    /\ bg_task = [state |-> "none", first_check |-> "none", orphan |-> FALSE]
    /\ ctl_under_results = FALSE

CalcIdle == ThIdle /\ PfIdle /\ DsIdle /\ SsIdle

AuxIdle ==
    StopIdle /\ ClIdle /\ CmdIdle /\ MgIdle /\ FcIdle /\ PoolIdle /\ CalcIdle

Init == InitOperation /\ InitRun /\ PrepIdle /\ AuxIdle

Next ==
    \/ ClusterCheckBefore
    \/ ClusterSubmit
    \/ ClusterCheckAfter
    \/ ClusterAddCallback
    \/ \E l \in Locs : ClusterTask(l)
    \/ \E l \in Locs : ClusterCallback(l)
    \/ ClusterExit
    \/ ValidateClusters
    \/ PlaceCheck
    \/ PlaceSubmit
    \/ \E l \in Locs : PlaceTask(l)
    \/ \E l \in Locs : PlaceCallback(l)
    \/ PlaceExit
    \/ ResultsLoop
    \/ PreMergeCheck
    \/ Merge
    \/ Except
    \/ StopRun
    \/ \E l \in Locs : RemoveFiles(l)

Spec == Init /\ [][Next]_vars

(***************************************************************************)
(* Properties of a run                                                     *)
(***************************************************************************)

\* C1: in process_locations every clustering task and its completion
\* callback has finished before any outline/place task is submitted.
ClusteringFinishedBeforePlacement ==
    (\E l \in Locs : ofts[l] # "none") =>
        \A l \in Range(locations) :
            /\ fts[l] \notin {"none", "pending"}
            /\ cbs[l] = "ran"

\* C1 witness: an outline/place task is pending after two clustering
\* callbacks saved and captured their locations.
WitnessPlacementAfterClustering ==
    /\ Len(hh_cc) >= 2
    /\ \A l \in Range(hh_cc) : ClusterFiles \subseteq files[l]
    /\ \E l \in Locs : ofts[l] = "pending"

\* C2: every location whose ClusteredHouseholds is invalid is in the failed
\* list returned by process_locations and was not passed to outline/place.
InvalidLocationsAreReportedFailed ==
    outcome = "returned" =>
        \A l \in Range(locations) :
            fts[l] = "ch_invalid" => (l \in Range(failed) /\ ofts[l] = "none")

\* C3: a None result of an outline/place task is never fatal: the run
\* completes, the location is in the failed list and the others are merged.
NoneResultIsNotFatal ==
    \A l \in Locs :
        (pc = "done" /\ ofts[l] = "None" /\ ~is_stopped) =>
            /\ outcome = "returned"
            /\ l \in Range(failed)
            /\ final_results.locs =
                  {m \in Locs : ofts[m] = "ResultFiles"}

\* C4: an exception other than cancellation raised inside a clustering or
\* outline/place task stops the run; the run never returns a normal result
\* after dropping it.
TaskExceptionStopsTheRun ==
    outcome = "returned" =>
        \A l \in Locs : fts[l] # "error" /\ ofts[l] # "error"

\* C5: if the stop signal is set at any point up to the pre-merge stop check
\* and stays set, process_locations returns the stopped outcome and never
\* runs the merge step.
StopBeforeMergeReturnsStopped ==
    (pc = "done" /\ stop_pc \notin {"none", "merge"} /\ is_stopped) =>
        /\ outcome = "stopped"
        /\ ~final_results.set

\* C6: when process_locations is cancelled during the clustering or the
\* outline/place stage, the per-location files already written for the stage
\* in progress are removed before it returns.
CancelRemovesStageFiles ==
    outcome = "stopped" =>
        /\ cancel_stage = "cluster" =>
               \A l \in Locs : files[l] \cap ClusterFiles = {}
        /\ cancel_stage = "place" =>
               \A l \in Locs : files[l] \cap PlaceFiles = {}

\* C11: a location whose clustering reached the iteration budget (converged
\* is false) is valid, saved, not in the failed list and passed on to
\* outline/place; with no stop signal and no file removed from outside, the
\* run is not aborted.
NonConvergedIsPassedOn ==
    \A l \in Locs :
        (/\ fts[l] = "ch_not_converged"
         /\ ~control_file.exists
         /\ removals = 0
         /\ pc \in {"op_check", "op_submit", "op_exit", "results_loop",
                    "premerge", "merge", "done"}) =>
            /\ ClusterFiles \subseteq files[l]
            /\ l \in Range(valid)
            /\ l \notin Range(failed)
            /\ outcome # "raised"
            /\ (pc \in {"results_loop", "premerge", "merge", "done"}
                   => ofts[l] # "none")

\* C11 witness: the run returned a merged result that includes a location
\* whose clustering did not converge.
WitnessNonConvergedMerged ==
    /\ outcome = "returned"
    /\ \E l \in Locs : fts[l] = "ch_not_converged" /\ l \in final_results.locs

\* C13: validate_clusters never aborts the run: it puts a captured location
\* in the valid list if and only if its ClusteredHouseholds is valid and its
\* clusters, centers and counts files exist, and every other captured
\* location (one with a missing file included) in the failed list.
ValidateClustersNeverAborts ==
    [][(pc = "validate" /\ pc' # "validate") =>
          /\ pc' # "done"
          /\ exc' # "AssertionError"
          /\ valid' = SelectSeq(hh_cc,
                          LAMBDA l : ChValid(l) /\ FilesAsserted(l))
          /\ failed' = SelectSeq(hh_cc,
                          LAMBDA l : ~(ChValid(l) /\ FilesAsserted(l)))]_vars

(***************************************************************************)
(* Spatial join and household derivation (utils/spatial.py, data/inputs.py)*)
(***************************************************************************)

Coords == 0 .. MaxCoord
\* a missing coordinate
NaN == -1
Adms == 1 .. MaxShapes

\* spatial.xy_to_gdf: rows with a missing coordinate are dropped.  A row is
\* [src, xy]: the index of the source row and its coordinate.
RECURSIVE xy_to_gdf(_)
xy_to_gdf(rows) ==
    IF rows = <<>> THEN <<>>
    ELSE IF Head(rows).xy = NaN THEN xy_to_gdf(Tail(rows))
         ELSE <<Head(rows)>> \o xy_to_gdf(Tail(rows))

\* the rows gpd.sjoin gives for one point: one per polygon it is within
RECURSIVE PointMatches(_, _, _)
PointMatches(row, shapes, adm) ==
    IF adm > Len(shapes) THEN <<>>
    ELSE (IF row.xy \in shapes[adm]
          THEN << [adm |-> adm, xy |-> row.xy, src |-> row.src] >>
          ELSE <<>>) \o PointMatches(row, shapes, adm + 1)

RECURSIVE sjoin(_, _)
sjoin(rows, shapes) ==
    IF rows = <<>> THEN <<>>
    ELSE PointMatches(Head(rows), shapes, 1) \o sjoin(Tail(rows), shapes)

\* spatial.join_xy_shapes with the predicate "within"
join_xy_shapes(rows, shapes) == sjoin(xy_to_gdf(rows), shapes)

\* df_xy.iloc[start:end], rows numbered from 0 as in the code
IlocInclusive(df, start, end) ==
    [i \in 1 .. (IF end < Len(df) THEN end - start + 1
                 ELSE IF end > start THEN end - start ELSE 0) |->
        [src |-> start + i, xy |-> df[start + i]]]
iloc(df, start, end) ==
    [i \in 1 .. (IF end > start THEN end - start ELSE 0) |->
        [src |-> start + i, xy |-> df[start + i]]]

Min(a, b) == IF a <= b THEN a ELSE b

\* order of sort_values(hh_cols): admin columns, then coordinates; rows equal
\* on them keep their order (the order of the source rows)
RowLess(a, b) ==
    \/ a.adm < b.adm
    \/ a.adm = b.adm /\ a.xy < b.xy
    \/ a.adm = b.adm /\ a.xy = b.xy /\ a.src < b.src

RECURSIVE InsertRow(_, _)
InsertRow(r, s) ==
    IF s = <<>> THEN <<r>>
    ELSE IF RowLess(r, Head(s)) THEN <<r>> \o s
         ELSE <<Head(s)>> \o InsertRow(r, Tail(s))

RECURSIVE sort_values(_)
sort_values(s) ==
    IF s = <<>> THEN <<>> ELSE InsertRow(Head(s), sort_values(Tail(s)))

\* line 336: assert len(df_hh) <= point_count
HouseholdsCountUnchecked(rows, point_count) == TRUE
HouseholdsCountOk(rows, point_count) == Len(rows) <= point_count

(***************************************************************************)
(* Inputs (config/config.py) and DataInputs (data/inputs.py)               *)
(***************************************************************************)

InputFiles == {"households", "households_stats", "village_centers",
               "village_centers_geojson", "baseline_facilities",
               "baseline_facilities_geojson", "all_locations"}

Absent    == [state |-> "absent", rows |-> <<>>]
EmptyFile == [state |-> "empty", rows |-> <<>>]
FullFile(rows) == [state |-> "full", rows |-> rows]

\* Path.is_file
IsFileNever(f) == FALSE
is_file(f) == f.state # "absent"

\* Inputs.remove_files
RemoveFilesKeepHouseholds(fs) ==
    [n \in InputFiles |->
        IF n \in {"households_stats", "village_centers",
                  "village_centers_geojson", "baseline_facilities",
                  "baseline_facilities_geojson"}
        THEN Absent ELSE fs[n]]
remove_files(fs) ==
    [n \in InputFiles |->
        IF n \in {"households", "households_stats", "village_centers",
                  "village_centers_geojson", "baseline_facilities",
                  "baseline_facilities_geojson"}
        THEN Absent ELSE fs[n]]

prepin == <<df_xy, gdf_shapes, chunk_size, has_baseline, runs>>

\* lines 46 and 140: prepare_shape_files and download_buildings; the shape
\* files and the buildings file are ready, no stop check is made
PrepareShapeFiles ==
    /\ ppc = "shapes"
    /\ ppc' = "households"
    /\ UNCHANGED <<in_files, p, df_hh, hh_table, prep_ret, prep_outcome,
                   hh_ret, inputs_read, skipped, cancelled_at>>
    /\ UNCHANGED joined
    /\ UNCHANGED <<prepin, opvars, runvars, auxvars>>

\* inputs.py 64-81: prepare_households up to the call of process_buildings
PrepareHouseholds ==
    /\ ppc = "households"
    /\ IF is_file(in_files["households"])
       THEN \* lines 67-69
            /\ hh_ret' = "households"
            /\ skipped' = TRUE
            /\ ppc' = "check_inputs"
            /\ UNCHANGED <<in_files, inputs_read, p, df_hh, joined>>
       ELSE \* lines 72-81 and 314-318
            /\ in_files' = [in_files EXCEPT !["households"] = EmptyFile]
            /\ inputs_read' = inputs_read + 1
            /\ p' = 0
            /\ df_hh' = [set |-> FALSE, rows |-> <<>>]
            /\ joined' = <<>>
            /\ ppc' = "chunk_stop"
            /\ UNCHANGED <<hh_ret, skipped>>
    /\ UNCHANGED <<hh_table, prep_ret, prep_outcome, cancelled_at>>
    /\ UNCHANGED <<prepin, opvars, runvars, auxvars>>

\* inputs.py 321: stop_fn() before each chunk
ChunkStopCheck ==
    /\ ppc = "chunk_stop"
    /\ IF is_stopped
       THEN ppc' = "except" /\ cancelled_at' = "chunk"
       ELSE ppc' = "chunk_join" /\ cancelled_at' = cancelled_at
    /\ UNCHANGED <<in_files, p, df_hh, hh_table, prep_ret, prep_outcome,
                   hh_ret, inputs_read, skipped>>
    /\ UNCHANGED joined
    /\ UNCHANGED <<prepin, opvars, runvars, auxvars>>

\* inputs.py 324-333: join the chunk and concatenate
ChunkJoin ==
    /\ ppc = "chunk_join"
    /\ LET point_count == Len(df_xy)
           chunk_count == point_count \div chunk_size
           start == p * chunk_size
           end   == Min((p + 1) * chunk_size, point_count)
           df    == join_xy_shapes(iloc(df_xy, start, end), gdf_shapes)
       IN  /\ df_hh' = [set |-> TRUE, rows |-> df_hh.rows \o df]
           /\ p' = p + 1
           /\ joined' = joined \o [i \in 1 .. Len(iloc(df_xy, start, end)) |->
                                     iloc(df_xy, start, end)[i].src]
           /\ ppc' = IF p + 1 < chunk_count + 1 THEN "chunk_stop"
                     ELSE "finalize"
    /\ UNCHANGED <<in_files, hh_table, prep_ret, prep_outcome, hh_ret,
                   inputs_read, skipped, cancelled_at>>
    /\ UNCHANGED <<prepin, opvars, runvars, auxvars>>

\* inputs.py 336-342 and 84-86: the assertion, dropna, sort_values, to_csv
FinalizeHouseholds ==
    /\ ppc = "finalize"
    /\ IF HouseholdsCountOk(df_hh.rows, Len(df_xy))
       THEN /\ hh_table' = [set |-> TRUE, rows |-> sort_values(df_hh.rows)]
            /\ in_files' = [in_files EXCEPT !["households"] =
                               FullFile(sort_values(df_hh.rows))]
            /\ hh_ret' = "households"
            /\ ppc' = "check_inputs"
            /\ UNCHANGED prep_outcome
       ELSE /\ prep_outcome' = "raised"
            /\ ppc' = "done"
            /\ UNCHANGED <<hh_table, in_files, hh_ret>>
    /\ UNCHANGED <<p, df_hh, prep_ret, inputs_read, skipped, cancelled_at>>
    /\ UNCHANGED joined
    /\ UNCHANGED <<prepin, opvars, runvars, auxvars>>

\* flows.py 145 and 50-52: check_input_households reads the households file
\* and writes the statistics; reading an empty file raises, and so may the
\* statistics
CheckInputHouseholds ==
    /\ ppc = "check_inputs"
    /\ \E ok \in BOOLEAN :
          IF ok /\ in_files["households"].state = "full"
          THEN /\ in_files' = [in_files EXCEPT !["households_stats"] =
                                  FullFile(<<>>)]
               /\ ppc' = "village_stop"
               /\ UNCHANGED prep_outcome
          ELSE /\ prep_outcome' = "raised"
               /\ ppc' = "done"
               /\ UNCHANGED in_files
    /\ UNCHANGED <<p, df_hh, hh_table, prep_ret, hh_ret, inputs_read, skipped,
                   cancelled_at>>
    /\ UNCHANGED joined
    /\ UNCHANGED <<prepin, opvars, runvars, auxvars>>

\* flows.py 55: raise_if_stopped before the village centers
VillageStopCheck ==
    /\ ppc = "village_stop"
    /\ IF is_stopped
       THEN ppc' = "except" /\ cancelled_at' = "village_centers"
       ELSE ppc' = "village" /\ cancelled_at' = cancelled_at
    /\ UNCHANGED <<in_files, p, df_hh, hh_table, prep_ret, prep_outcome,
                   hh_ret, inputs_read, skipped>>
    /\ UNCHANGED joined
    /\ UNCHANGED <<prepin, opvars, runvars, auxvars>>

\* flows.py 56, inputs.py 109-143: prepare_village_locality writes the empty
\* file, then (unless an assertion on the columns fails) the table and the
\* geojson
PrepareVillageLocality ==
    /\ ppc = "village"
    /\ \E ok \in BOOLEAN :
          IF ok
          THEN /\ in_files' = [in_files EXCEPT
                                  !["village_centers"] = FullFile(<<>>),
                                  !["village_centers_geojson"] = FullFile(<<>>)]
               /\ ppc' = IF has_baseline THEN "baseline_stop" ELSE "locations"
               /\ UNCHANGED prep_outcome
          ELSE /\ in_files' = [in_files EXCEPT
                                  !["village_centers"] = EmptyFile]
               /\ prep_outcome' = "raised"
               /\ ppc' = "done"
    /\ UNCHANGED <<p, df_hh, hh_table, prep_ret, hh_ret, inputs_read, skipped,
                   cancelled_at>>
    /\ UNCHANGED joined
    /\ UNCHANGED <<prepin, opvars, runvars, auxvars>>

\* flows.py 60: raise_if_stopped before the baseline facilities
BaselineStopCheck ==
    /\ ppc = "baseline_stop"
    /\ IF is_stopped
       THEN ppc' = "except" /\ cancelled_at' = "baseline"
       ELSE ppc' = "baseline" /\ cancelled_at' = cancelled_at
    /\ UNCHANGED <<in_files, p, df_hh, hh_table, prep_ret, prep_outcome,
                   hh_ret, inputs_read, skipped>>
    /\ UNCHANGED joined
    /\ UNCHANGED <<prepin, opvars, runvars, auxvars>>

\* flows.py 61-66, inputs.py 200-270: prepare_baseline_facilities
PrepareBaselineFacilities ==
    /\ ppc = "baseline"
    /\ in_files' = [in_files EXCEPT
                       !["baseline_facilities"] = FullFile(<<>>),
                       !["baseline_facilities_geojson"] = FullFile(<<>>)]
    /\ ppc' = "locations"
    /\ UNCHANGED <<p, df_hh, hh_table, prep_ret, prep_outcome, hh_ret,
                   inputs_read, skipped, cancelled_at>>
    /\ UNCHANGED joined
    /\ UNCHANGED <<prepin, opvars, runvars, auxvars>>

\* flows.py 76-82: the locations file is written, the files are returned
StoreLocations ==
    /\ ppc = "locations"
    /\ in_files' = [in_files EXCEPT !["all_locations"] = FullFile(<<>>)]
    /\ prep_ret' = [hh_file |-> hh_ret, ok |-> TRUE]
    /\ prep_outcome' = "returned"
    /\ ppc' = "done"
    /\ UNCHANGED <<p, df_hh, hh_table, hh_ret, inputs_read, skipped,
                   cancelled_at>>
    /\ UNCHANGED joined
    /\ UNCHANGED <<prepin, opvars, runvars, auxvars>>

\* flows.py 71-74: except InterruptedError
PrepExcept ==
    /\ ppc = "except"
    /\ cleanup
    /\ in_files' = remove_files(in_files)
    /\ prep_ret' = [hh_file |-> "Path()", ok |-> FALSE]
    /\ prep_outcome' = "stopped"
    /\ ppc' = "done"
    /\ UNCHANGED <<p, df_hh, hh_table, hh_ret, inputs_read, skipped,
                   cancelled_at>>
    /\ UNCHANGED <<control_file, log_file, clock>>
    /\ UNCHANGED joined
    /\ UNCHANGED <<prepin, runvars, auxvars>>

\* Operation.stop while prepare_inputs is running
StopPrep ==
    /\ prep_outcome = "running"
    /\ ~control_file.exists
    /\ stop
    /\ UNCHANGED <<log_file, clock, handlers>>
    /\ UNCHANGED <<prepvars, runvars, auxvars>>

\* cmd_prep is run again on the same input directory: a new Config is built
\* (Operation.__post_init__ unlinks the control file) and prepare_inputs
\* is called with the same country
RunAgain ==
    /\ prep_outcome \in {"returned", "stopped", "raised"}
    /\ runs < MaxRuns
    /\ runs' = runs + 1
    /\ control_file' = [exists |-> FALSE, mtime |-> 0]
    /\ handlers' = TRUE
    /\ ppc' = "shapes"
    /\ p' = 0
    /\ df_hh' = [set |-> FALSE, rows |-> <<>>]
    /\ hh_table' = [set |-> FALSE, rows |-> <<>>]
    /\ prep_ret' = [hh_file |-> "unset", ok |-> FALSE]
    /\ prep_outcome' = "running"
    /\ hh_ret' = "unset"
    /\ skipped' = FALSE
    /\ cancelled_at' = "none"
    /\ joined' = <<>>
    /\ UNCHANGED <<df_xy, gdf_shapes, chunk_size, has_baseline, in_files,
                   inputs_read>>
    /\ UNCHANGED <<log_file, clock>>
    /\ UNCHANGED <<runvars, auxvars>>

\* process_locations is not running
RunIdle ==
    /\ locations = <<>>
    /\ pc = "idle"
    /\ idx = 1
    /\ exc = "none"
    /\ fts = [l \in Locs |-> "none"]
    /\ cbs = [l \in Locs |-> "none"]
    /\ hh_cc = <<>>
    /\ valid = <<>>
    /\ failed = <<>>
    /\ ofts = [l \in Locs |-> "none"]
    /\ ocbs = [l \in Locs |-> "none"]
    /\ results_dict = <<>>
    /\ files = [l \in Locs |-> {}]
    /\ final_results = [set |-> FALSE, locs |-> {}]
    /\ outcome = "idle"
    /\ stop_pc = "none"
    /\ cancel_stage = "none"
    /\ removals = 0

\* sequences of length 0 .. n over S
SeqsUpTo(S, n) == UNION {[1 .. k -> S] : k \in 0 .. n}

InitPrepare ==
    /\ df_xy \in SeqsUpTo(Coords \cup {NaN}, MaxPoints)
    /\ gdf_shapes \in [Adms -> SUBSET Coords]
    /\ chunk_size \in 1 .. MaxChunkSize
    /\ has_baseline \in BOOLEAN
    /\ in_files = [n \in InputFiles |-> Absent]
    /\ ppc = "shapes"
    /\ p = 0
    /\ df_hh = [set |-> FALSE, rows |-> <<>>]
    /\ hh_table = [set |-> FALSE, rows |-> <<>>]
    /\ prep_ret = [hh_file |-> "unset", ok |-> FALSE]
    /\ prep_outcome = "running"
    /\ hh_ret = "unset"
    /\ inputs_read = 0
    /\ skipped = FALSE
    /\ cancelled_at = "none"
    /\ joined = <<>>
    /\ runs = 1

InitPrep == InitOperation /\ RunIdle /\ InitPrepare /\ AuxIdle

NextPrep ==
    \/ PrepareShapeFiles
    \/ PrepareHouseholds
    \/ ChunkStopCheck
    \/ ChunkJoin
    \/ FinalizeHouseholds
    \/ CheckInputHouseholds
    \/ VillageStopCheck
    \/ PrepareVillageLocality
    \/ BaselineStopCheck
    \/ PrepareBaselineFacilities
    \/ StoreLocations
    \/ PrepExcept
    \/ StopPrep
    \/ RunAgain

SpecPrep == InitPrep /\ [][NextPrep]_vars

(***************************************************************************)
(* Properties of the data preparation                                      *)
(***************************************************************************)

\* C7: if cancellation is raised at a stop check of prepare_inputs (also
\* between the chunks of the household derivation), prepare_inputs returns
\* the success flag False and afterwards the households file (its empty
\* in-progress sentinel included), the village-centers file and the baseline
\* file do not exist.
CancelledPrepLeavesNoInputs ==
    prep_outcome = "stopped" =>
        /\ ~prep_ret.ok
        /\ ~is_file(in_files["households"])
        /\ ~is_file(in_files["village_centers"])
        /\ ~is_file(in_files["baseline_facilities"])

\* C7 witness: a run cancelled between two chunks, after the sentinel of
\* the households file was written, has returned.
WitnessCancelledBetweenChunks ==
    /\ prep_outcome = "stopped"
    /\ cancelled_at = "chunk"
    /\ p >= 1
    /\ df_hh.set

\* C8: prepare_households on an existing non-empty households file returns
\* the configured path without loading the inputs, recomputing or modifying
\* the file.
ExistingHouseholdsFileIsKept ==
    [][(ppc = "households" /\ in_files["households"].state = "full"
          /\ ppc' # "households")
        => /\ hh_ret' = "households"
           /\ in_files' = in_files
           /\ inputs_read' = inputs_read
           /\ df_hh' = df_hh
           /\ hh_table' = hh_table
           /\ ppc' = "check_inputs"]_vars

\* C8 witness: a second run found the households file the first run derived
\* (two rows) and returned its path.
WitnessHouseholdsSkipped ==
    /\ runs = 2
    /\ skipped
    /\ hh_ret = "households"
    /\ in_files["households"].state = "full"
    /\ Len(in_files["households"].rows) = 2
    /\ inputs_read = 1

\* C9: whenever process_google_buildings returns a table, it has at most as
\* many rows as there are input building points.
HouseholdsNotMoreThanPoints ==
    hh_table.set => Len(hh_table.rows) <= Len(df_xy)

\* C9 witness: a table is returned in which the join dropped a point and
\* kept another.
WitnessHouseholdsFiltered ==
    /\ hh_table.set
    /\ Len(hh_table.rows) >= 1
    /\ Len(hh_table.rows) < Len(df_xy)

\* C10: for every input building point and every set of administrative
\* polygons, overlapping ones included, the returned table holds at most one
\* household row for that point.
NoSourcePointDuplicated ==
    hh_table.set =>
        \A i \in 1 .. Len(df_xy) :
            Cardinality({j \in 1 .. Len(hh_table.rows) :
                            hh_table.rows[j].src = i}) <= 1

(***************************************************************************)
(* The clustering task of one location (tasks/clustering.py)               *)
(***************************************************************************)

\* largest number of rows of a household or village-center slice
MaxSliceRows == 2
\* largest iteration budget of the k-means model
MaxIter == 2

\* ClusteredHouseholds.__init__: the tables are copies of the two slices
NewClusteredHouseholds(hh, vc) ==
    [made |-> TRUE, _valid |-> TRUE, _converged |-> "False",
     clusters |-> hh, centers |-> vc,
     labels |-> FALSE, centroids |-> FALSE, finalized |-> FALSE,
     _df_counts |-> "None", finalize_calls |-> 0]

\* ClusteredHouseholds.valid without the _valid flag
ClusteredHouseholdsValidIgnoringFlag(c) ==
    /\ c._converged # "None"
    /\ c.clusters > 0
    /\ c.centers > 0
\* ClusteredHouseholds.valid
ClusteredHouseholdsValid(c) ==
    /\ c._converged # "None"
    /\ c._valid
    /\ c.clusters > 0
    /\ c.centers > 0

\* lines 169-176: a slice that is None or has no rows clears `ok`
SlicesOkAlways(hh, vc) == TRUE
SlicesOk(hh, vc) == hh > 0 /\ vc > 0

\* cluster_points line 235: converged = n_iter_ < max_iter
ConvergedWithinBudget(n_iter, max_iter) == n_iter <= max_iter
Converged(n_iter, max_iter) == n_iter < max_iter

\* lines 169-186: the checks of the slices, the instance, the early return
TaskStart ==
    /\ tpc = "start"
    /\ ch' = NewClusteredHouseholds(df_slices.households, df_slices.centers)
    /\ tpc' = IF SlicesOk(df_slices.households, df_slices.centers)
              THEN "cluster_points" ELSE "returned"
    /\ UNCHANGED <<df_slices, km_model, fit_calls, converged>>
    /\ UNCHANGED <<opvars, runvars, prepvars, calcvars, stopvars, cmdvars, mgvars,
                   fcvars, poolvars>>

\* lines 188-201 and cluster_points (212-236): kmeans_fit is called; a
\* ValueError marks the instance invalid and returns it; otherwise the labels
\* and the centroid columns are written and the converged flag is returned
TaskClusterPoints ==
    /\ tpc = "cluster_points"
    /\ fit_calls' = fit_calls + 1
    /\ IF km_model.raises
       THEN /\ ch' = [ch EXCEPT !._valid = FALSE]
            /\ tpc' = "returned"
            /\ UNCHANGED converged
       ELSE /\ ch' = [ch EXCEPT !.labels = TRUE, !.centroids = TRUE]
            /\ converged' = IF Converged(km_model.n_iter, km_model.max_iter)
                            THEN "True" ELSE "False"
            /\ tpc' = "finalize"
    /\ UNCHANGED <<df_slices, km_model>>
    /\ UNCHANGED <<opvars, runvars, prepvars, calcvars, stopvars, cmdvars, mgvars,
                   fcvars, poolvars>>

\* lines 204-209: ch.finalize(converged), the warning, return ch
TaskFinalize ==
    /\ tpc = "finalize"
    /\ ch' = [ch EXCEPT !._converged = converged, !.finalized = TRUE,
                       !._df_counts = "table",
                       !.finalize_calls = ch.finalize_calls + 1]
    /\ tpc' = "returned"
    /\ UNCHANGED <<df_slices, km_model, fit_calls, converged>>
    /\ UNCHANGED <<opvars, runvars, prepvars, calcvars, stopvars, cmdvars, mgvars,
                   fcvars, poolvars>>

InitCluster ==
    /\ df_slices \in [households : 0 .. MaxSliceRows,
                      centers : 0 .. MaxSliceRows]
    /\ km_model \in [n_iter : 0 .. MaxIter, max_iter : 1 .. MaxIter,
                     raises : BOOLEAN]
    /\ ch = [made |-> FALSE]
    /\ tpc = "start"
    /\ fit_calls = 0
    /\ converged = "unset"

InitClusterTask ==
    /\ InitOperation /\ RunIdle /\ PrepIdle
    /\ StopIdle /\ InitCluster /\ CmdIdle /\ MgIdle /\ FcIdle /\ PoolIdle /\ CalcIdle

NextClusterTask ==
    \/ TaskStart
    \/ TaskClusterPoints
    \/ TaskFinalize

SpecCluster == InitClusterTask /\ [][NextClusterTask]_vars

\* C12: if the household slice or the village-center slice of a location is
\* empty, the task returns without calling the k-means fit and the returned
\* ClusteredHouseholds is not valid; an attempted clustering that did not
\* converge is valid.
EmptyInputSkipsKMeans ==
    /\ (tpc = "returned"
          /\ (df_slices.households = 0 \/ df_slices.centers = 0)) =>
            (fit_calls = 0 /\ ~ClusteredHouseholdsValid(ch))
    /\ (tpc = "returned" /\ converged = "False") =>
            (fit_calls = 1 /\ ClusteredHouseholdsValid(ch))

\* C12 witness: the task returned for a location that has households and no
\* village centers.
WitnessNoCentersReturned ==
    /\ tpc = "returned"
    /\ ch.made
    /\ df_slices.households > 0
    /\ df_slices.centers = 0

\* C20: cluster_points returns converged = true if and only if the model's
\* iteration count is strictly less than its iteration budget, and in both
\* cases the labels and the centroid columns are written to the tables.
ConvergedIffBelowBudget ==
    converged # "unset" =>
        /\ (converged = "True") <=> (km_model.n_iter < km_model.max_iter)
        /\ ch.labels
        /\ ch.centroids

\* C20 witness: the fit used up its budget and cluster_points returned
\* false with the labels written.
WitnessBudgetReached ==
    /\ converged = "False"
    /\ km_model.n_iter = km_model.max_iter
    /\ ch.labels

(***************************************************************************)
(* cmd_run (utils/commands.py)                                             *)
(***************************************************************************)

\* lists of distinct locations
LocationLists ==
    {s \in SeqsUpTo(Locs, MaxLocs) :
        \A i, j \in 1 .. Len(s) : i # j => s[i] # s[j]}

\* what process_locations may return: `final_results, failed`, or
\* `None, False` after a cancellation
ProcessLocationsReturns ==
    {[rs |-> r, failed |-> f, stopped |-> FALSE] :
        r \in {"None", "ResultFiles"}, f \in LocationLists}
    \cup {[rs |-> "None", failed |-> <<>>, stopped |-> TRUE]}

Message(m) == [msg |-> m, loc |-> 0]
LocationMessage(l) == [msg |-> "location", loc |-> l]

\* lines 18-31: the previous results are removed, the locations string is
\* built (no locations: return False), the arguments are logged for the CLI
\* and the locations file is written
CmdStart ==
    /\ cmd_pc = "start"
    /\ IF ~cmd_in.has_locations
       THEN /\ cmd_ret' = "False"
            /\ cmd_pc' = "done"
            /\ UNCHANGED cmd_log
       ELSE /\ cmd_log' = IF cmd_in.cli
                          THEN Append(cmd_log, Message("Command: run"))
                          ELSE cmd_log
            /\ cmd_pc' = "process_locations"
            /\ UNCHANGED cmd_ret
    /\ UNCHANGED cmd_in
    /\ UNCHANGED <<opvars, runvars, prepvars, calcvars, stopvars, clvars, mgvars,
                   fcvars, poolvars>>

\* line 34: rs, failed = ScientificWorkflow(cfg=cfg).process_locations()
CmdProcessLocations ==
    /\ cmd_pc = "process_locations"
    /\ cmd_pc' = "log_results"
    /\ UNCHANGED <<cmd_in, cmd_log, cmd_ret>>
    /\ UNCHANGED <<opvars, runvars, prepvars, calcvars, stopvars, clvars, mgvars,
                   fcvars, poolvars>>

\* lines 37-43: the merged files or "No results found."
CmdLogResults ==
    /\ cmd_pc = "log_results"
    /\ cmd_log' = IF cmd_in.ret.rs # "None"
                  THEN Append(cmd_log, Message("Merged files:"))
                  ELSE Append(cmd_log, Message("No results found."))
    /\ cmd_pc' = "log_failed"
    /\ UNCHANGED <<cmd_in, cmd_ret>>
    /\ UNCHANGED <<opvars, runvars, prepvars, calcvars, stopvars, clvars, mgvars,
                   fcvars, poolvars>>

\* lines 45-53: `if failed:` starts with logger.info() without a message,
\* which raises TypeError (Logger.info() missing 1 required positional
\* argument: 'msg') before the loop that logs the names (a LocationMessage
\* each) is reached; otherwise return True
CmdLogFailed ==
    /\ cmd_pc = "log_failed"
    /\ IF ~cmd_in.ret.stopped /\ Len(cmd_in.ret.failed) > 0
       THEN cmd_ret' = "TypeError"
       ELSE cmd_ret' = "True"
    /\ cmd_pc' = "done"
    /\ UNCHANGED <<cmd_in, cmd_log>>
    /\ UNCHANGED <<opvars, runvars, prepvars, calcvars, stopvars, clvars, mgvars,
                   fcvars, poolvars>>

InitCmd ==
    /\ cmd_in \in [cli : BOOLEAN, has_locations : BOOLEAN,
                   ret : ProcessLocationsReturns]
    /\ cmd_pc = "start"
    /\ cmd_log = <<>>
    /\ cmd_ret = "unset"

InitCmdRun ==
    /\ InitOperation /\ RunIdle /\ PrepIdle
    /\ StopIdle /\ ClIdle /\ InitCmd /\ MgIdle /\ FcIdle /\ PoolIdle /\ CalcIdle

NextCmdRun ==
    \/ CmdStart
    \/ CmdProcessLocations
    \/ CmdLogResults
    \/ CmdLogFailed

SpecCmd == InitCmdRun /\ [][NextCmdRun]_vars

MaxMergedRows == 2
\* the cells of a table hold the values 0 .. MaxVal
MaxVal == 1

\* the five artifact kinds of ResultFiles / ResultData
ArtifactKinds == {"shapes", "clusters", "centers", "counts", "facilities"}

\* the rows of a table: two columns
TableRows == (0 .. MaxVal) \X (0 .. MaxVal)

\* pd.concat of the tables read for the values of the results dict, in the
\* order of the dict
ConcatLastOnly(tables) ==
    IF tables = <<>> THEN <<>> ELSE tables[Len(tables)]
RECURSIVE pd_concat(_)
pd_concat(tables) ==
    IF tables = <<>> THEN <<>>
    ELSE Head(tables) \o pd_concat(Tail(tables))

\* the order of a sort by the first column alone
TupleLessFirstColumn(a, b) == a[1] < b[1]
\* the order of sort_values(by=df.columns.to_list()): column by column
TupleLess(a, b) ==
    \/ a[1] < b[1]
    \/ a[1] = b[1] /\ a[2] < b[2]

RECURSIVE InsertTuple(_, _)
InsertTuple(r, s) ==
    IF s = <<>> THEN <<r>>
    ELSE IF TupleLess(r, Head(s)) THEN <<r>> \o s
         ELSE <<Head(s)>> \o InsertTuple(r, Tail(s))

RECURSIVE sort_by_all_columns(_)
sort_by_all_columns(s) ==
    IF s = <<>> THEN <<>>
    ELSE InsertTuple(Head(s), sort_by_all_columns(Tail(s)))

\* lines 98-117: the per-location tables of a kind are read, concatenated
\* and sorted in place by all their columns; the same two statements are
\* applied to each of the five kinds
MergeResultData ==
    /\ ~mg_out.set
    /\ mg_in.kind \in ArtifactKinds
    /\ mg_out' = [set |-> TRUE,
                  rows |-> sort_by_all_columns(pd_concat(mg_in.tables))]
    /\ UNCHANGED mg_in
    /\ UNCHANGED <<opvars, runvars, prepvars, calcvars, stopvars, clvars, cmdvars,
                   fcvars, poolvars>>

\* the rows of `rows` that the location l owns, in order
RECURSIVE RowsOwnedBy(_, _, _)
RowsOwnedBy(rows, owner, l) ==
    IF rows = <<>> THEN <<>>
    ELSE (IF Head(owner) = l THEN <<Head(rows)>> ELSE <<>>)
         \o RowsOwnedBy(Tail(rows), Tail(owner), l)

\* process_results calls the merge for a non-empty results dict; each
\* location of the dict has a table of the kind
InitMerge ==
    /\ \E n \in 1 .. MaxLocs :
       \E rows \in SeqsUpTo(TableRows, MaxMergedRows) :
       \E owner \in [1 .. Len(rows) -> 1 .. n] :
       \E kind \in ArtifactKinds :
          mg_in = [kind |-> kind,
                   tables |-> [l \in 1 .. n |-> RowsOwnedBy(rows, owner, l)]]
    /\ mg_out = [set |-> FALSE, rows |-> <<>>]

InitMergeData ==
    /\ InitOperation /\ RunIdle /\ PrepIdle
    /\ StopIdle /\ ClIdle /\ CmdIdle /\ InitMerge /\ FcIdle /\ PoolIdle /\ CalcIdle

NextMergeData == MergeResultData

SpecMerge == InitMergeData /\ [][NextMergeData]_vars

\* number of times the row r occurs in the table s
Occurrences(r, s) == Cardinality({i \in 1 .. Len(s) : s[i] = r})

RECURSIVE SumOccurrences(_, _)
SumOccurrences(r, tables) ==
    IF tables = <<>> THEN 0
    ELSE Occurrences(r, Head(tables)) + SumOccurrences(r, Tail(tables))

\* C15: for each artifact kind the merged table holds exactly the multiset
\* union of the rows of the per-location tables (none dropped, none
\* duplicated) and is sorted by its full column list.
MergedIsSortedUnion ==
    mg_out.set =>
        /\ \A r \in TableRows :
              Occurrences(r, mg_out.rows) = SumOccurrences(r, mg_in.tables)
        /\ \A i, j \in 1 .. Len(mg_out.rows) :
              i < j => ~TupleLess(mg_out.rows[j], mg_out.rows[i])

\* C15 witness: two locations hold the same row and the second one's table
\* sorts before the first one's; the merged table has both rows.
WitnessMergedTwoLocations ==
    /\ mg_out.set
    /\ Len(mg_in.tables) = 2
    /\ Len(mg_out.rows) = 2
    /\ mg_in.tables[1] # <<>>
    /\ mg_in.tables[2] # <<>>
    /\ TupleLess(mg_in.tables[2][1], mg_in.tables[1][1])

(***************************************************************************)
(* Per-location file paths and facility ids (utils/spatial.py,             *)
(* tasks/placement.py, tasks/clustering.py, tasks/outlines.py, flows.py)   *)
(***************************************************************************)

\* longest admin name, in characters
MaxNameLen == 3
\* number of admin levels of a location (village_centers.adm_cols[:-1])
AdmLevels == 2
\* largest number of facilities placed for a location
MaxFacilities == 1

\* Strings are sequences of characters.  util.clean_series keeps the
\* characters of an admin name apart from accents and apostrophes, so a
\* name may hold a slash; the names here begin and end with a letter.
NameChars == {"a", "/"}
AdmNames ==
    {s \in SeqsUpTo(NameChars, MaxNameLen) :
        Len(s) > 0 /\ s[1] = "a" /\ s[Len(s)] = "a"}

\* flows.py line 79: a location is ":".join of the admin names of a row
RECURSIVE JoinNames(_)
JoinNames(names) ==
    IF Len(names) = 1 THEN names[1]
    ELSE names[1] \o <<":">> \o JoinNames(Tail(names))

LocationStrings == {JoinNames(n) : n \in [1 .. AdmLevels -> AdmNames]}

\* the kinds of per-location files
FileKinds == {"clusters", "centers", "counts", "shapes", "facilities",
              "plots"}

\* the configured file pattern of a kind: <results dir>/{location}/<file>
FilePattern(kind) == <<"r", "/", "{location}", "/", kind>>

\* location.replace(":", "/")
ReplaceColons(s) == [i \in 1 .. Len(s) |-> IF s[i] = ":" THEN "/" ELSE s[i]]

\* str(pattern).format(location=loc_path)
RECURSIVE Format(_, _)
Format(pattern, loc_path) ==
    IF pattern = <<>> THEN <<>>
    ELSE (IF Head(pattern) = "{location}" THEN loc_path
          ELSE <<Head(pattern)>>) \o Format(Tail(pattern), loc_path)

\* pathlib.Path(file): the components between the separators, empty
\* components dropped
RECURSIVE PathParts(_, _)
PathParts(s, cur) ==
    IF s = <<>> THEN (IF cur = <<>> THEN <<>> ELSE <<cur>>)
    ELSE IF Head(s) = "/"
         THEN (IF cur = <<>> THEN <<>> ELSE <<cur>>)
              \o PathParts(Tail(s), <<>>)
         ELSE PathParts(Tail(s), Append(cur, Head(s)))

\* spatial.location_path
location_path(pattern, location) ==
    PathParts(Format(pattern, ReplaceColons(location)), <<>>)

\* outlines.merge_results: the merged file of a kind
MergedPath(kind) == location_path(FilePattern(kind), <<>>)

\* str(i) for the row numbers
Digits == <<"0", "1", "2", "3", "4", "5", "6", "7", "8", "9">>

\* placement.py 73-74: unique_ids = [f"{location}_{i}" for i in range(len)]
\* A facility row is [key, facility_id]: key stands for its other columns.
place_facilities(i, location, count) ==
    [k \in 1 .. count |->
        [key |-> <<i, k - 1>>,
         facility_id |-> location \o <<"_">> \o <<Digits[k]>>]]

\* the file at a path, written by the task of location i
WriteFile(d, path, rows, i) ==
    LET old == {f \in d : f.path = path}
        writers == UNION {f.writers : f \in old}
    IN  (d \ old) \cup
        {[path |-> path, rows |-> rows, writers |-> writers \cup {i}]}

RECURSIVE WriteFiles(_, _, _, _, _)
WriteFiles(d, kinds, location, rowsOf, i) ==
    IF kinds = {} THEN d
    ELSE LET k == CHOOSE x \in kinds : TRUE
         IN  WriteFiles(WriteFile(d, location_path(FilePattern(k), location),
                                  rowsOf[k], i),
                        kinds \ {k}, location, rowsOf, i)

FcSaved(i) ==
    \E f \in disk :
        /\ f.path = location_path(FilePattern("clusters"), fc_locs[i])
        /\ i \in f.writers

FcPlaced(i) == \E j \in 1 .. Len(fc_results) : fc_results[j].loc = i

\* ClusteredHouseholds.save in the clustering callback of location i
FcSave(i) ==
    /\ i \in 1 .. Len(fc_locs)
    /\ ~FcSaved(i)
    /\ disk' = WriteFiles(disk, {"clusters", "centers", "counts"},
                          fc_locs[i], [k \in FileKinds |-> <<>>], i)
    /\ UNCHANGED <<fc_locs, fc_counts, fc_results, fc_merged>>
    /\ UNCHANGED <<opvars, runvars, prepvars, calcvars, stopvars, clvars, cmdvars,
                   mgvars, poolvars>>

\* outline_and_place_clustered_households of location i and its callback:
\* the shapes, the clusters and centers with distances, the plots and the
\* facilities are written, the ResultFiles is captured in the results dict
FcOutlineAndPlace(i) ==
    /\ i \in 1 .. Len(fc_locs)
    /\ \A j \in 1 .. Len(fc_locs) : FcSaved(j)
    /\ ~FcPlaced(i)
    /\ ~fc_merged.set
    /\ LET facilities == place_facilities(i, fc_locs[i], fc_counts[i])
           rowsOf == [k \in FileKinds |->
                         IF k = "facilities" THEN facilities ELSE <<>>]
       IN  /\ disk' = WriteFiles(disk, {"shapes", "clusters", "centers",
                                        "plots", "facilities"},
                                 fc_locs[i], rowsOf, i)
           /\ fc_results' = Append(fc_results,
                 [loc |-> i,
                  facilities_file |->
                      location_path(FilePattern("facilities"), fc_locs[i])])
    /\ UNCHANGED <<fc_locs, fc_counts, fc_merged>>
    /\ UNCHANGED <<opvars, runvars, prepvars, calcvars, stopvars, clvars, cmdvars,
                   mgvars, poolvars>>

\* pd.read_csv of a file
ReadFile(d, path) == (CHOOSE f \in d : f.path = path).rows

RECURSIVE ReadAll(_, _)
ReadAll(d, results) ==
    IF results = <<>> THEN <<>>
    ELSE <<ReadFile(d, Head(results).facilities_file)>>
         \o ReadAll(d, Tail(results))

RECURSIVE InsertFacility(_, _)
InsertFacility(r, s) ==
    IF s = <<>> THEN <<r>>
    ELSE IF TupleLess(r.key, Head(s).key) THEN <<r>> \o s
         ELSE <<Head(s)>> \o InsertFacility(r, Tail(s))

RECURSIVE sort_facilities(_)
sort_facilities(s) ==
    IF s = <<>> THEN <<>>
    ELSE InsertFacility(Head(s), sort_facilities(Tail(s)))

\* merge_results: the facilities files of the results are read,
\* concatenated and sorted, and the merged file is written
FcMergeResults ==
    /\ fc_locs # <<>>
    /\ \A i \in 1 .. Len(fc_locs) : FcPlaced(i)
    /\ ~fc_merged.set
    /\ LET rows == sort_facilities(pd_concat(ReadAll(disk, fc_results)))
       IN  /\ fc_merged' = [set |-> TRUE, rows |-> rows]
           /\ disk' = WriteFile(disk, MergedPath("facilities"), rows, 0)
    /\ UNCHANGED <<fc_locs, fc_counts, fc_results>>
    /\ UNCHANGED <<opvars, runvars, prepvars, calcvars, stopvars, clvars, cmdvars,
                   mgvars, poolvars>>

\* cfg.locations holds distinct location strings
InitFacilities ==
    /\ fc_locs \in {s \in [1 .. 2 -> LocationStrings] : s[1] # s[2]}
    /\ fc_counts \in [1 .. 2 -> 1 .. MaxFacilities]
    /\ disk = {}
    /\ fc_results = <<>>
    /\ fc_merged = [set |-> FALSE, rows |-> <<>>]

InitLocationFiles ==
    /\ InitOperation /\ RunIdle /\ PrepIdle
    /\ StopIdle /\ ClIdle /\ CmdIdle /\ MgIdle /\ InitFacilities /\ PoolIdle /\ CalcIdle

NextLocationFiles ==
    \/ \E i \in 1 .. 2 : FcSave(i)
    \/ \E i \in 1 .. 2 : FcOutlineAndPlace(i)
    \/ FcMergeResults

SpecFiles == InitLocationFiles /\ [][NextLocationFiles]_vars

\* C16: no two tasks or callbacks of distinct locations write the same file
\* path: for every kind of file, location_path maps distinct location
\* strings to distinct paths, and none of them is a merged-output path.
DistinctLocationsDistinctPaths ==
    \A f \in disk :
        /\ Cardinality(f.writers) <= 1
        /\ (\E k \in FileKinds : f.path = MergedPath(k)) => f.writers = {0}

\* C19: in the merged facilities table built from distinct locations no
\* two rows carry the same facility_id.
FacilityIdsUnique ==
    fc_merged.set =>
        \A i, j \in 1 .. Len(fc_merged.rows) :
            i # j => fc_merged.rows[i].facility_id
                       # fc_merged.rows[j].facility_id

(***************************************************************************)
(* The threads of a pool stage: cluster_households step by step (flows.py) *)
(***************************************************************************)

\* Python's round() of num / den: to the nearest integer, halves to even
Round(num, den) ==
    LET q == num \div den
        r == num % den
    IN  IF 2 * r < den THEN q
        ELSE IF 2 * r > den THEN q + 1
        ELSE IF q % 2 = 0 THEN q ELSE q + 1

\* util.report_progress: the value it returns
report_progress(items, total_count) == Round(100 * Len(items), total_count)

PoolKinds == {"process", "thread"}

\* The thread that finishes a future and runs the callbacks attached to it:
\* the worker thread of the task in a ThreadPoolExecutor, the one queue
\* management thread in a ProcessPoolExecutor.
SetterThread == IF pool_kind = "thread" THEN "worker" ELSE "manager"

\* the queue management thread is inside set_result of some future: it has
\* a callback to run or is running one
ManagerBusy ==
    \E l \in Locs :
        /\ pl_fts[l] \in {"ch", "error"}
        /\ \/ pl_cbs[l] = "attached"
           \/ pl_cbs[l] = "running" /\ pl_thread[l] = "manager"

\* the submission loop moves to the next location or leaves the loop
PlAdvance ==
    IF pl_idx < MaxLocs
    THEN pl_idx' = pl_idx + 1 /\ pl_pc' = "check1"
    ELSE pl_idx' = pl_idx /\ pl_pc' = "exit"

\* process_future up to the call of report_progress, run by thread th:
\* lines 214-230
PlProcessFutureBegin(l, th) ==
    IF is_stopped \/ pl_fts[l] = "error"
    THEN /\ pl_cbs' = [pl_cbs EXCEPT ![l] = "ran"]
         /\ UNCHANGED <<pl_thread, pl_hh_cc, pl_new_perc>>
    ELSE /\ pl_cbs' = [pl_cbs EXCEPT ![l] = "running"]
         /\ pl_thread' = [pl_thread EXCEPT ![l] = th]
         /\ pl_hh_cc' = Append(pl_hh_cc, l)
         /\ pl_new_perc' = [pl_new_perc EXCEPT
                               ![l] = report_progress(pl_hh_cc', MaxLocs)]

\* process_future from the return of report_progress: the nonlocal
\* done_perc is assigned (line 226)
PlProcessFutureEnd(l) ==
    /\ done_perc' = pl_new_perc[l]
    /\ pl_cbs' = [pl_cbs EXCEPT ![l] = "ran"]
    /\ pl_thread' = [pl_thread EXCEPT ![l] = "none"]

\* line 236: raise_if_stopped before the submission
PlCheckBefore ==
    /\ pl_pc = "check1"
    /\ pl_pc' = IF is_stopped THEN "exit_raised" ELSE "submit"
    /\ UNCHANGED <<pool_kind, pl_idx, pl_fts, pl_cbs, pl_thread, pl_hh_cc,
                   done_perc, pl_new_perc>>
    /\ UNCHANGED <<opvars, runvars, prepvars, calcvars, stopvars, clvars, cmdvars,
                   mgvars, fcvars>>

\* lines 242-247: executor.submit
PlSubmit ==
    /\ pl_pc = "submit"
    /\ pl_fts' = [pl_fts EXCEPT ![pl_idx] = "pending"]
    /\ pl_pc' = "check2"
    /\ UNCHANGED <<pool_kind, pl_idx, pl_cbs, pl_thread, pl_hh_cc, done_perc,
                   pl_new_perc>>
    /\ UNCHANGED <<opvars, runvars, prepvars, calcvars, stopvars, clvars, cmdvars,
                   mgvars, fcvars>>

\* line 249: raise_if_stopped between submit and add_done_callback
PlCheckAfter ==
    /\ pl_pc = "check2"
    /\ pl_pc' = IF is_stopped THEN "exit_raised" ELSE "addcb"
    /\ UNCHANGED <<pool_kind, pl_idx, pl_fts, pl_cbs, pl_thread, pl_hh_cc,
                   done_perc, pl_new_perc>>
    /\ UNCHANGED <<opvars, runvars, prepvars, calcvars, stopvars, clvars, cmdvars,
                   mgvars, fcvars>>

\* line 250: add_done_callback.  On a pending future the callback is
\* attached; on a finished future the submitting thread calls it itself.
PlAddCallback ==
    /\ pl_pc = "addcb"
    /\ IF pl_fts[pl_idx] = "pending"
       THEN /\ pl_cbs' = [pl_cbs EXCEPT ![pl_idx] = "attached"]
            /\ PlAdvance
            /\ UNCHANGED <<pl_thread, pl_hh_cc, pl_new_perc>>
       ELSE /\ PlProcessFutureBegin(pl_idx, "main")
            /\ IF pl_cbs'[pl_idx] = "running"
               THEN pl_pc' = "inline" /\ pl_idx' = pl_idx
               ELSE PlAdvance
    /\ UNCHANGED <<pool_kind, pl_fts, done_perc>>
    /\ UNCHANGED <<opvars, runvars, prepvars, calcvars, stopvars, clvars, cmdvars,
                   mgvars, fcvars>>

\* the submitting thread finishes the callback it called itself
PlInlineEnd ==
    /\ pl_pc = "inline"
    /\ PlProcessFutureEnd(pl_idx)
    /\ PlAdvance
    /\ UNCHANGED <<pool_kind, pl_fts, pl_hh_cc, pl_new_perc>>
    /\ UNCHANGED <<opvars, runvars, prepvars, calcvars, stopvars, clvars, cmdvars,
                   mgvars, fcvars>>

\* Future.set_result / set_exception of the task of location l.  The queue
\* management thread of a process pool handles one result at a time.
PlSetResult(l) ==
    /\ pl_fts[l] = "pending"
    /\ pool_kind = "process" => ~ManagerBusy
    /\ \E r \in {"ch", "error"} : pl_fts' = [pl_fts EXCEPT ![l] = r]
    /\ UNCHANGED <<pool_kind, pl_pc, pl_idx, pl_cbs, pl_thread, pl_hh_cc,
                   done_perc, pl_new_perc>>
    /\ UNCHANGED <<opvars, runvars, prepvars, calcvars, stopvars, clvars, cmdvars,
                   mgvars, fcvars>>

\* Future._invoke_callbacks: the thread that finished the future enters
\* the attached callback
PlCallbackBegin(l) ==
    /\ pl_fts[l] \in {"ch", "error"}
    /\ pl_cbs[l] = "attached"
    /\ PlProcessFutureBegin(l, SetterThread)
    /\ UNCHANGED <<pool_kind, pl_pc, pl_idx, pl_fts, done_perc>>
    /\ UNCHANGED <<opvars, runvars, prepvars, calcvars, stopvars, clvars, cmdvars,
                   mgvars, fcvars>>

\* and leaves it
PlCallbackEnd(l) ==
    /\ pl_cbs[l] = "running"
    /\ pl_thread[l] # "main"
    /\ PlProcessFutureEnd(l)
    /\ UNCHANGED <<pool_kind, pl_pc, pl_idx, pl_fts, pl_hh_cc, pl_new_perc>>
    /\ UNCHANGED <<opvars, runvars, prepvars, calcvars, stopvars, clvars, cmdvars,
                   mgvars, fcvars>>

\* lines 207/252: the `with` block is left through shutdown(wait=True)
PlExit ==
    /\ pl_pc \in {"exit", "exit_raised"}
    /\ \A l \in Locs : pl_fts[l] # "pending"
                       /\ pl_cbs[l] \notin {"attached", "running"}
    /\ pl_pc' = IF pl_pc = "exit" THEN "done" ELSE "raised"
    /\ UNCHANGED <<pool_kind, pl_idx, pl_fts, pl_cbs, pl_thread, pl_hh_cc,
                   done_perc, pl_new_perc>>
    /\ UNCHANGED <<opvars, runvars, prepvars, calcvars, stopvars, clvars, cmdvars,
                   mgvars, fcvars>>

\* Session.stop_task -> Operation.stop while the stage is in progress
PlStop ==
    /\ pl_pc \notin {"done", "raised"}
    /\ ~control_file.exists
    /\ stop
    /\ UNCHANGED <<log_file, clock, handlers>>
    /\ UNCHANGED <<runvars, prepvars, auxvars>>

\* line 22: PoolExecutor is one of the two executors; lines 209-210
InitPool ==
    /\ pool_kind \in PoolKinds
    /\ pl_pc = "check1"
    /\ pl_idx = 1
    /\ pl_fts = [l \in Locs |-> "none"]
    /\ pl_cbs = [l \in Locs |-> "none"]
    /\ pl_thread = [l \in Locs |-> "none"]
    /\ pl_hh_cc = <<>>
    /\ done_perc = 0
    /\ pl_new_perc = [l \in Locs |-> 0]

InitPoolStage ==
    /\ InitOperation /\ RunIdle /\ PrepIdle
    /\ StopIdle /\ ClIdle /\ CmdIdle /\ MgIdle /\ FcIdle /\ InitPool /\ CalcIdle

NextPoolStage ==
    \/ PlCheckBefore
    \/ PlSubmit
    \/ PlCheckAfter
    \/ PlAddCallback
    \/ PlInlineEnd
    \/ \E l \in Locs : PlSetResult(l)
    \/ \E l \in Locs : PlCallbackBegin(l)
    \/ \E l \in Locs : PlCallbackEnd(l)
    \/ PlExit
    \/ PlStop

SpecPool == InitPoolStage /\ [][NextPoolStage]_vars

\* C17: under both executors no two completion callbacks of a stage execute
\* at the same time, so the updates of the result dictionary and of the
\* progress counter never interleave: a callback that has written the
\* dictionary stores its progress value before another one writes.
CallbacksNeverOverlap ==
    Cardinality({l \in Locs : pl_cbs[l] = "running"}) <= 1

(***************************************************************************)
(* The stop signal across log writes and log reads (config/config.py,      *)
(* utils/util.py, ux/main.py)                                              *)
(***************************************************************************)

\* last value of the file system clock
MaxClock == 2

\* how the file system of the log file maintains access times
AtimeModes == {"strictatime", "relatime", "noatime"}

\* st_atime of a file after a read at time now
AtimeAfterRead(f, now) ==
    CASE atime_mode = "strictatime" -> now
      [] atime_mode = "relatime" -> IF f.atime <= f.mtime THEN now ELSE f.atime
      [] atime_mode = "noatime" -> f.atime

\* time passes
OpTick ==
    /\ clock < MaxClock
    /\ clock' = clock + 1
    /\ UNCHANGED <<control_file, log_file, handlers>>
    /\ UNCHANGED <<runvars, prepvars, auxvars>>

\* Operation.stop
OpStop ==
    /\ stop
    /\ stop_called' = TRUE
    /\ polled' = "none"
    /\ UNCHANGED <<log_file, clock, handlers, atime_mode>>
    /\ UNCHANGED <<runvars, prepvars, calcvars, clvars, cmdvars, mgvars, fcvars,
                   poolvars>>

\* Operation.clear
OpClear ==
    /\ control_file' = [exists |-> FALSE, mtime |-> 0]
    /\ stop_called' = FALSE
    /\ polled' = "none"
    /\ UNCHANGED <<log_file, clock, handlers, atime_mode>>
    /\ UNCHANGED <<runvars, prepvars, calcvars, clvars, cmdvars, mgvars, fcvars,
                   poolvars>>

\* a new Operation on the same files: __post_init__ unlinks the control
\* file, init_logger opens the log file with mode "w"
OpNew ==
    /\ control_file' = [exists |-> FALSE, mtime |-> 0]
    /\ log_file' = [log_file EXCEPT !.mtime = clock]
    /\ handlers' = TRUE
    /\ stop_called' = FALSE
    /\ polled' = "none"
    /\ UNCHANGED <<clock, atime_mode>>
    /\ UNCHANGED <<runvars, prepvars, calcvars, clvars, cmdvars, mgvars, fcvars,
                   poolvars>>

\* the file handler of the logger appends a message to the log file
OpLogWrite ==
    /\ handlers
    /\ log_file' = [log_file EXCEPT !.mtime = clock]
    /\ UNCHANGED <<control_file, clock, handlers>>
    /\ UNCHANGED <<runvars, prepvars, auxvars>>

\* ux get_logs: log_file.read_text()
OpLogRead ==
    /\ log_file.exists
    /\ log_file' = [log_file EXCEPT !.atime = AtimeAfterRead(log_file, clock)]
    /\ UNCHANGED <<control_file, clock, handlers>>
    /\ UNCHANGED <<runvars, prepvars, auxvars>>

\* a call of Operation.is_stopped
OpIsStopped ==
    /\ polled' = IF is_stopped THEN "true" ELSE "false"
    /\ UNCHANGED <<atime_mode, stop_called>>
    /\ UNCHANGED <<opvars, runvars, prepvars, calcvars, clvars, cmdvars, mgvars, fcvars,
                   poolvars>>

InitStop ==
    /\ atime_mode \in AtimeModes
    /\ stop_called = FALSE
    /\ polled = "none"

InitStopSignal ==
    /\ InitOperation /\ RunIdle /\ PrepIdle
    /\ InitStop /\ ClIdle /\ CmdIdle /\ MgIdle /\ FcIdle /\ PoolIdle /\ CalcIdle

NextStopSignal ==
    \/ OpTick
    \/ OpStop
    \/ OpClear
    \/ OpNew
    \/ OpLogWrite
    \/ OpLogRead
    \/ OpIsStopped

SpecStop == InitStopSignal /\ [][NextStopSignal]_vars

\* C18: once stop() has been called, every later is_stopped() call returns
\* true until clear() is called or a new Operation is constructed, whatever
\* writes to or reads of the log file happen in between.
StopIsSticky ==
    stop_called => polled # "false"

(***************************************************************************)
(* Household counts of the clusters and the small flag                     *)
(* (tasks/clustering.py, flows.py)                                         *)
(***************************************************************************)

\* largest number of clustered household rows
MaxHouseholds == 3
\* largest cluster label
MaxClusters == 2
\* largest threshold_households
MaxThreshold == 3

\* threshold_households: -1 when not configured (config.py line 172)
Thresholds == {-1} \cup (1 .. MaxThreshold)
\* threshold_village_perc: -1 when not configured
VillagePercs == {-1, 50, 100}

\* df.groupby(by=cols) counting the rows of each group: only the groups
\* that occur
GroupCounts(clusters) ==
    {[cluster |-> c,
      counts |-> Cardinality({i \in 1 .. Len(clusters) : clusters[i] = c})] :
        c \in Range(clusters)}

\* counts < threshold_households
IsSmallInclusive(counts, threshold) == counts <= threshold
IsSmall(counts, threshold) == counts < threshold

\* the counts table with its small column
CountsTable(clusters, threshold) ==
    {[cluster |-> g.cluster, counts |-> g.counts,
      small |-> IsSmall(g.counts, threshold)] : g \in GroupCounts(clusters)}

\* ClusteredHouseholds._calc_counts
CalcCounts ==
    /\ ~th_counts.set
    /\ th_counts' = [set |-> TRUE,
                     table |-> CountsTable(th_in.clusters, th_in.threshold),
                     ok |-> FALSE]
    /\ UNCHANGED <<th_in, th_check>>
    /\ UNCHANGED <<opvars, runvars, prepvars, restvars, pfvars, dsvars, ssvars>>

\* ScientificWorkflow.check_thresholds on the clusters file: the table of
\* cluster_counts.csv and the returned flag,
\* round(100.0 * invalid_cnt / count, 2) < threshold_village_perc
CheckThresholds ==
    /\ th_counts.set
    /\ ~th_check.set
    /\ LET df_cnt == CountsTable(th_in.clusters, th_in.threshold)
           df_inv == {g \in df_cnt : IsSmall(g.counts, th_in.threshold)}
           invalid_perc_100 ==
               Round(10000 * Cardinality(df_inv), Cardinality(df_cnt))
       IN  th_check' = [set |-> TRUE, table |-> df_cnt,
                        ok |-> invalid_perc_100 < 100 * th_in.perc]
    /\ UNCHANGED <<th_in, th_counts>>
    /\ UNCHANGED <<opvars, runvars, prepvars, restvars, pfvars, dsvars, ssvars>>

\* the clusters table of a valid ClusteredHouseholds is not empty
InitCounts ==
    /\ th_in \in [clusters : SeqsUpTo(1 .. MaxClusters, MaxHouseholds) \ {<<>>},
                  threshold : Thresholds,
                  perc : VillagePercs]
    /\ th_counts = [set |-> FALSE, table |-> {}, ok |-> FALSE]
    /\ th_check = [set |-> FALSE, table |-> {}, ok |-> FALSE]

InitCountsTables ==
    /\ InitOperation /\ RunIdle /\ PrepIdle
    /\ StopIdle /\ ClIdle /\ CmdIdle /\ MgIdle /\ FcIdle /\ PoolIdle
    /\ InitCounts /\ PfIdle /\ DsIdle /\ SsIdle

NextCountsTables == CalcCounts \/ CheckThresholds

SpecCounts == InitCountsTables /\ [][NextCountsTables]_vars

\* C21: in the counts table of _calc_counts and in that of check_thresholds
\* a cluster is flagged small exactly when its household count is strictly
\* below threshold_households; a count equal to the threshold is not small.
SmallIffBelowThreshold ==
    /\ th_counts.set =>
          \A g \in th_counts.table :
              /\ g.counts = Cardinality({i \in 1 .. Len(th_in.clusters) :
                                            th_in.clusters[i] = g.cluster})
              /\ g.small <=> g.counts < th_in.threshold
    /\ th_check.set =>
          \A g \in th_check.table :
              /\ g.counts = Cardinality({i \in 1 .. Len(th_in.clusters) :
                                            th_in.clusters[i] = g.cluster})
              /\ g.small <=> g.counts < th_in.threshold

\* both tables hold a cluster whose count equals the threshold
WitnessCountAtThreshold ==
    /\ th_counts.set /\ th_check.set
    /\ \E g \in th_counts.table : g.counts = th_in.threshold /\ ~g.small
    /\ \E g \in th_check.table : g.counts = th_in.threshold /\ ~g.small

(***************************************************************************)
(* placement.place_facilities (tasks/placement.py, utils/spatial.py)       *)
(***************************************************************************)

\* largest number of household points of a cluster group
MaxGroupSize == 4
\* largest number of cluster groups of a location
MaxGroups == 2
\* largest configured facilities.n_facilities
MaxNFacilities == 4

\* the household points of group g: X of the loop body
GroupPoints(g, size) == [i \in 1 .. size |-> <<"point", g, i>>]

\* spatial.kmeans_fit -> KMeans(n_clusters).fit(X): cluster_centers_ holds
\* n_clusters centroids; fit raises ValueError when X has fewer samples
\* than n_clusters
kmeans_fit(g, size, n_clusters) ==
    IF size < n_clusters
    THEN [raised |-> TRUE, cluster_centers_ |-> <<>>]
    ELSE [raised |-> FALSE,
          cluster_centers_ |-> [k \in 1 .. n_clusters |-> <<"centroid", g, k>>]]

\* X.shape[0] >= 3
EnoughPoints(size) == size >= 3

\* one iteration of the loop over the cluster groups, lines 43-68
PlaceGroup ==
    /\ pf_state = "running"
    /\ pf_i <= Len(pf_in.groups)
    /\ LET size == pf_in.groups[pf_i]
           n == pf_in.n_facilities
       IN  IF EnoughPoints(size)
           THEN /\ pf_calls' = Append(pf_calls,
                                      [group |-> pf_i, n_clusters |-> n])
                /\ IF kmeans_fit(pf_i, size, n).raised
                   THEN /\ pf_state' = "ValueError"
                        /\ UNCHANGED <<pf_i, pf_facilities>>
                   ELSE /\ pf_facilities' =
                              Append(pf_facilities,
                                     kmeans_fit(pf_i, size, n).cluster_centers_)
                        /\ pf_i' = pf_i + 1
                        /\ pf_state' = pf_state
           ELSE /\ pf_facilities' =
                      Append(pf_facilities, GroupPoints(pf_i, size))
                /\ pf_i' = pf_i + 1
                /\ UNCHANGED <<pf_calls, pf_state>>
    /\ UNCHANGED pf_in
    /\ UNCHANGED <<opvars, runvars, prepvars, restvars, thvars, dsvars, ssvars>>

\* lines 70-76: the groups' facilities are concatenated and returned
PlaceReturn ==
    /\ pf_state = "running"
    /\ pf_i > Len(pf_in.groups)
    /\ pf_state' = "returned"
    /\ UNCHANGED <<pf_in, pf_i, pf_facilities, pf_calls>>
    /\ UNCHANGED <<opvars, runvars, prepvars, restvars, thvars, dsvars, ssvars>>

\* the clusters of a valid location: at least one group, each with at
\* least one household
InitPlace ==
    /\ pf_in \in [groups : SeqsUpTo(1 .. MaxGroupSize, MaxGroups) \ {<<>>},
                  n_facilities : 1 .. MaxNFacilities]
    /\ pf_i = 1
    /\ pf_facilities = <<>>
    /\ pf_calls = <<>>
    /\ pf_state = "running"

InitPlaceFacilities ==
    /\ InitOperation /\ RunIdle /\ PrepIdle
    /\ StopIdle /\ ClIdle /\ CmdIdle /\ MgIdle /\ FcIdle /\ PoolIdle
    /\ ThIdle /\ InitPlace /\ DsIdle /\ SsIdle

NextPlaceFacilities == PlaceGroup \/ PlaceReturn

SpecPlace == InitPlaceFacilities /\ [][NextPlaceFacilities]_vars

\* the calls of kmeans_fit made for group g
CallsFor(g) == SelectSeq(pf_calls, LAMBDA c : c.group = g)

\* C22: once the loop has dealt with a group, a group of fewer than 3
\* points has exactly its points as facilities and no k-means call, and a
\* group of 3 or more points has one k-means call with the configured
\* number of facilities and the centroids of that call as facilities.
SmallGroupsKeptLargeGroupsClustered ==
    \A g \in 1 .. Len(pf_in.groups) :
        (g < pf_i \/ (pf_state = "ValueError" /\ g = pf_i)) =>
            IF pf_in.groups[g] < 3
            THEN /\ CallsFor(g) = <<>>
                 /\ g <= Len(pf_facilities)
                 /\ pf_facilities[g] = GroupPoints(g, pf_in.groups[g])
            ELSE /\ CallsFor(g) =
                       <<[group |-> g, n_clusters |-> pf_in.n_facilities]>>
                 /\ g <= Len(pf_facilities)
                 /\ Len(pf_facilities[g]) = pf_in.n_facilities
                 /\ \A k \in 1 .. pf_in.n_facilities :
                       pf_facilities[g][k] = <<"centroid", g, k>>

(***************************************************************************)
(* Nearest facility of each location point (tasks/distance.py)             *)
(***************************************************************************)

\* largest coordinate of a point
MaxGrid == 2
\* largest number of location points
MaxDistLocs == 2
\* largest number of facility points
MaxDistFacs == 3

\* The points lie on a line: the Euclidean distance of cdist,
\* sqrt((a - b)^2), is the absolute difference.
GridPoints == 0 .. MaxGrid

euclidean(a, b) == IF a >= b THEN a - b ELSE b - a

\* distance.cdist(location_xy, facility_xy): one row per location, one
\* column per facility
cdist(location_xy, facility_xy) ==
    [i \in 1 .. Len(location_xy) |->
        [j \in 1 .. Len(facility_xy) |->
            euclidean(location_xy[i], facility_xy[j])]]

\* row.min()
RowMin(row) ==
    CHOOSE m \in Range(row) : \A j \in 1 .. Len(row) : m <= row[j]

\* row.argmin(): numpy returns the first occurrence of the minimum, as a
\* 0-based index
ArgMinLast(row) ==
    (CHOOSE j \in 1 .. Len(row) :
        /\ row[j] = RowMin(row)
        /\ \A k \in (j + 1) .. Len(row) : row[k] # RowMin(row)) - 1
argmin(row) ==
    (CHOOSE j \in 1 .. Len(row) :
        /\ row[j] = RowMin(row)
        /\ \A k \in 1 .. (j - 1) : row[k] # RowMin(row)) - 1

\* find_nearest_facility
find_nearest_facility(location_xy, facility_xy) ==
    LET distances == cdist(location_xy, facility_xy)
    IN  [indices |-> [i \in 1 .. Len(location_xy) |-> argmin(distances[i])],
         distances |-> [i \in 1 .. Len(location_xy) |-> RowMin(distances[i])]]

\* the function is applied to the two coordinate arrays
FindNearestFacility ==
    /\ ~ds_nearest.set
    /\ ds_in.locations # <<>> /\ ds_in.facilities # <<>>
    /\ LET r == find_nearest_facility(
                    [i \in 1 .. Len(ds_in.locations) |-> ds_in.locations[i].xy],
                    [j \in 1 .. Len(ds_in.facilities) |->
                        ds_in.facilities[j].xy])
       IN  ds_nearest' = [set |-> TRUE, indices |-> r.indices,
                          distances |-> r.distances]
    /\ UNCHANGED <<ds_in, ds_out>>
    /\ UNCHANGED <<opvars, runvars, prepvars, restvars, thvars, pfvars, ssvars>>

\* location tables: each row has its row number and a coordinate
LocationTables ==
    {[i \in 1 .. Len(s) |-> [row |-> i, xy |-> s[i]]] :
        s \in SeqsUpTo(GridPoints, MaxDistLocs) \ {<<>>}}

\* facility tables whose ids are the row numbers
FacilityTables ==
    {[j \in 1 .. Len(s) |-> [facility_id |-> j, xy |-> s[j]]] :
        s \in SeqsUpTo(GridPoints, MaxDistFacs) \ {<<>>}}

InitNearest ==
    /\ ds_in \in [locations : LocationTables, facilities : FacilityTables]
    /\ ds_nearest = [set |-> FALSE, indices |-> <<>>, distances |-> <<>>]
    /\ ds_out = [set |-> FALSE, rows |-> <<>>]

InitNearestFacility ==
    /\ InitOperation /\ RunIdle /\ PrepIdle
    /\ StopIdle /\ ClIdle /\ CmdIdle /\ MgIdle /\ FcIdle /\ PoolIdle
    /\ ThIdle /\ PfIdle /\ InitNearest /\ SsIdle

NextNearestFacility == FindNearestFacility

SpecNearest == InitNearestFacility /\ [][NextNearestFacility]_vars

\* C23: for each location point the returned index is that of a facility
\* at minimal Euclidean distance, the returned distance is that minimal
\* distance, and among equally close facilities the earliest of the
\* facility list is returned.
NearestIsFirstMinimum ==
    ds_nearest.set =>
        /\ Len(ds_nearest.indices) = Len(ds_in.locations)
        /\ Len(ds_nearest.distances) = Len(ds_in.locations)
        /\ \A i \in 1 .. Len(ds_in.locations) :
              LET at(j) == euclidean(ds_in.locations[i].xy,
                                     ds_in.facilities[j].xy)
                  n == ds_nearest.indices[i] + 1
              IN  /\ n \in 1 .. Len(ds_in.facilities)
                  /\ \A j \in 1 .. Len(ds_in.facilities) : at(n) <= at(j)
                  /\ \A j \in 1 .. (n - 1) : at(j) > at(n)
                  /\ ds_nearest.distances[i] = at(n)

\* a location point with two facilities equally close, the nearest not
\* being the first of the list
WitnessNearestTie ==
    /\ ds_nearest.set
    /\ \E i \in 1 .. Len(ds_in.locations) :
          \E j, k \in 1 .. Len(ds_in.facilities) :
              /\ 1 < j /\ j < k
              /\ ds_nearest.indices[i] = j - 1
              /\ euclidean(ds_in.locations[i].xy, ds_in.facilities[j].xy)
                   = euclidean(ds_in.locations[i].xy, ds_in.facilities[k].xy)

(***************************************************************************)
(* calculate_distance_df (tasks/distance.py)                               *)
(***************************************************************************)

\* largest facility id of a facility table
MaxFacilityId == 2

\* Facility tables as calculate_distance hands them over: the index is
\* 0 .. n-1, the facility_id column is the one of place_facilities or the
\* one of the user's baseline file (inputs.py 228-230), which is kept as
\* it is.
BaselineTables ==
    SeqsUpTo([facility_id : 1 .. MaxFacilityId, xy : GridPoints], MaxDistFacs)
        \ {<<>>}

\* pd.merge(df_locations, df_facilities, left_on, right_on): the inner
\* join, in the order of the left rows, one row per matching right row
RECURSIVE merge_on(_, _)
merge_on(left, right) ==
    IF left = <<>> THEN <<>>
    ELSE LET l == Head(left)
             matches == SelectSeq(right,
                            LAMBDA f : f.facility_id = l.assigned_id)
         IN  [k \in 1 .. Len(matches) |->
                 [row |-> l.row, assigned_id |-> l.assigned_id,
                  euclidean |-> l.euclidean,
                  minkowski |-> euclidean(l.xy, matches[k].xy)]]
             \o merge_on(Tail(left), right)

\* calculate_distance_df
calculate_distance_df(df, df2) ==
    IF Len(df) = 0 \/ Len(df2) = 0 THEN df
    ELSE LET r == find_nearest_facility(
                      [i \in 1 .. Len(df) |-> df[i].xy],
                      [j \in 1 .. Len(df2) |-> df2[j].xy])
             assigned ==
                 [i \in 1 .. Len(df) |->
                     [row |-> df[i].row, xy |-> df[i].xy,
                      assigned_id |-> df2[r.indices[i] + 1].facility_id,
                      euclidean |-> r.distances[i]]]
         IN  merge_on(assigned, df2)

\* the function is applied to the two tables
CalculateDistanceDf ==
    /\ ~ds_out.set
    /\ ds_out' = [set |-> TRUE,
                  rows |-> calculate_distance_df(ds_in.locations,
                                                 ds_in.facilities)]
    /\ UNCHANGED <<ds_in, ds_nearest>>
    /\ UNCHANGED <<opvars, runvars, prepvars, restvars, thvars, pfvars, ssvars>>

InitDistance ==
    /\ ds_in \in [locations : LocationTables, facilities : BaselineTables]
    /\ ds_nearest = [set |-> FALSE, indices |-> <<>>, distances |-> <<>>]
    /\ ds_out = [set |-> FALSE, rows |-> <<>>]

InitDistanceDf ==
    /\ InitOperation /\ RunIdle /\ PrepIdle
    /\ StopIdle /\ ClIdle /\ CmdIdle /\ MgIdle /\ FcIdle /\ PoolIdle
    /\ ThIdle /\ PfIdle /\ InitDistance /\ SsIdle

NextDistanceDf == CalculateDistanceDf

SpecDistanceDf == InitDistanceDf /\ [][NextDistanceDf]_vars

\* C29: for a non-empty location table and a non-empty facility table the
\* result has exactly one row per location row, in their order, each with
\* an assigned id that is the id of a facility at minimal Euclidean
\* distance from the location.
OneRowPerLocation ==
    ds_out.set =>
        /\ Len(ds_out.rows) = Len(ds_in.locations)
        /\ \A i \in 1 .. Len(ds_out.rows) :
              /\ ds_out.rows[i].row = i
              /\ \E j \in 1 .. Len(ds_in.facilities) :
                    /\ ds_in.facilities[j].facility_id
                         = ds_out.rows[i].assigned_id
                    /\ \A k \in 1 .. Len(ds_in.facilities) :
                          euclidean(ds_in.locations[i].xy,
                                    ds_in.facilities[j].xy)
                            <= euclidean(ds_in.locations[i].xy,
                                         ds_in.facilities[k].xy)

(***************************************************************************)
(* The stop checks of the submission loops (flows.py)                      *)
(***************************************************************************)

\* C24: in cluster_households and in outline_and_place a location task is
\* submitted only right after a poll of the stop signal that found it not
\* set, and once a poll has found it set (the InterruptedError of
\* raise_if_stopped is unwinding the stage) no further task is submitted.
StopPolledBeforeEachSubmission ==
    [][/\ \A l \in Locs :
            /\ (fts[l] = "none" /\ fts'[l] = "pending") =>
                   pc = "cl_submit" /\ exc # "InterruptedError"
            /\ (ofts[l] = "none" /\ ofts'[l] = "pending") =>
                   pc = "op_submit" /\ exc # "InterruptedError"
       /\ (pc' = "cl_submit" /\ pc # "cl_submit") =>
              pc = "cl_check1" /\ ~control_file.exists
       /\ (pc' = "op_submit" /\ pc # "op_submit") =>
              pc = "op_check" /\ ~control_file.exists
       /\ exc = "InterruptedError" =>
              \A l \in Locs :
                  /\ fts'[l] = "pending" => fts[l] = "pending"
                  /\ ofts'[l] = "pending" => ofts[l] = "pending"
      ]_vars

\* a stage was cancelled by a poll after one location had been submitted
\* and before another one was
WitnessStopBetweenSubmissions ==
    /\ exc = "InterruptedError"
    /\ pc = "except"
    /\ \/ \E l1, l2 \in Range(locations) :
              fts[l1] # "none" /\ fts[l2] = "none"
       \/ \E l1, l2 \in Range(valid) :
              ofts[l1] # "none" /\ ofts[l2] = "none"

(***************************************************************************)
(* The chunks of process_google_buildings (data/inputs.py)                 *)
(***************************************************************************)

\* C25: the chunks [p*c, min((p+1)*c, n)) for p = 0 .. n div c hand every
\* row of the input to the spatial join exactly once and in order: after
\* p chunks the rows 1 .. min(p*c, n) have been handed over, and when the
\* loop is left, after n div c + 1 chunks, all n rows have been, also
\* when n is a multiple of c.
ChunksCoverEachRowOnce ==
    /\ (prep_outcome = "running" /\ ppc \in {"chunk_stop", "chunk_join"}) =>
          /\ p <= Len(df_xy) \div chunk_size
          /\ joined = [i \in 1 .. Min(p * chunk_size, Len(df_xy)) |-> i]
    /\ (prep_outcome = "running" /\ ppc = "finalize") =>
          /\ p = Len(df_xy) \div chunk_size + 1
          /\ joined = [i \in 1 .. Len(df_xy) |-> i]

\* the loop was left after an input of several full chunks
WitnessExactMultipleOfChunk ==
    /\ prep_outcome = "running" /\ ppc = "finalize"
    /\ Len(df_xy) >= 2
    /\ Len(df_xy) % chunk_size = 0
    /\ p = Len(df_xy) \div chunk_size + 1

(***************************************************************************)
(* What process_locations returns for each location (flows.py)             *)
(***************************************************************************)

\* C26: when process_locations returns without cancellation, every
\* location of cfg.locations is either among the merged results or in the
\* returned failed list, and none is in both.
EveryLocationMergedOrFailed ==
    outcome = "returned" =>
        \A l \in Range(locations) :
            /\ l \in final_results.locs \/ l \in Range(failed)
            /\ ~(l \in final_results.locs /\ l \in Range(failed))

(***************************************************************************)
(* Saving a returned ClusteredHouseholds (tasks/clustering.py)             *)
(***************************************************************************)

\* ClusteredHouseholds.save (lines 153-161): a valid instance writes the
\* clusters file, the centers file and the counts file, in this order;
\* _df_counts.reset_index() raises AttributeError while _df_counts is None;
\* an instance that is not valid raises ValueError
ClusteredHouseholdsSave(c) ==
    IF ClusteredHouseholdsValid(c)
    THEN IF c._df_counts = "None"
         THEN [raised |-> "AttributeError", files |-> {"clusters", "centers"}]
         ELSE [raised |-> "none",
               files |-> {"clusters", "centers", "counts"}]
    ELSE [raised |-> "ValueError", files |-> {}]

\* C27: a ClusteredHouseholds returned by cluster_houses_by_villages_centers
\* that is valid was finalized exactly once, so it has its counts table and
\* save() writes the three files without raising.
ValidImpliesFinalizedOnce ==
    (tpc = "returned" /\ ClusteredHouseholdsValid(ch)) =>
        /\ ch.finalize_calls = 1
        /\ ch._df_counts = "table"
        /\ ClusteredHouseholdsSave(ch) =
             [raised |-> "none", files |-> {"clusters", "centers", "counts"}]

\* C27 witness: the task returned a valid instance after a fit that used up
\* its iteration budget.
WitnessValidReturnedNotConverged ==
    /\ tpc = "returned"
    /\ ClusteredHouseholdsValid(ch)
    /\ ch._converged = "False"
    /\ fit_calls = 1

(***************************************************************************)
(* The order of the results dict (flows.py, tasks/outlines.py)             *)
(***************************************************************************)

\* outline_and_place.process_future (flows.py 265-280) stores
\* results[location] = rf when the task of the location completes, so the
\* dict may hold the same locations in any order
DictOrders(n) ==
    {order \in [1 .. n -> 1 .. n] : \A i, j \in 1 .. n : i # j => order[i] # order[j]}

\* the tables of the values of the dict in the order `order`
InDictOrder(tables, order) == [i \in 1 .. Len(tables) |-> tables[order[i]]]

\* C28: the merged table does not depend on the order of the locations in
\* the results dict: merging the same per-location tables in any order
\* gives the table that merge_result_data returned.
MergeIgnoresDictOrder ==
    mg_out.set =>
        \A order \in DictOrders(Len(mg_in.tables)) :
            sort_by_all_columns(pd_concat(InDictOrder(mg_in.tables, order)))
                = mg_out.rows

\* C28 witness: two locations with different tables were merged, and the
\* merged table is the concatenation in the order opposite to the dict's.
WitnessMergedOppositeOrder ==
    /\ mg_out.set
    /\ Len(mg_in.tables) = 2
    /\ mg_in.tables[1] # <<>>
    /\ mg_in.tables[2] # <<>>
    /\ mg_in.tables[1] \o mg_in.tables[2] # mg_in.tables[2] \o mg_in.tables[1]
    /\ mg_out.rows = mg_in.tables[2] \o mg_in.tables[1]

(***************************************************************************)
(* The session and its background task (ux/session.py, ux/main.py)         *)
(***************************************************************************)

\* Session.start_task lines 221-225: the previous operation is cleared only
\* while the session still holds it and it is stopped
StartTaskClears(operation) == operation # "None" /\ is_stopped

\* Session.stop_task (lines 236-240) on the session's operation: stop()
\* touches the control file, clear_task forgets the operation
ControlAfterStopTask(operation) ==
    IF operation # "None"
    THEN [exists |-> TRUE, mtime |-> clock]
    ELSE control_file

\* shutil.rmtree(s.cfg.results.root_dir) of the /prep handler (line 302)
ControlAfterRmtree(ctl) ==
    IF ctl_under_results THEN [exists |-> FALSE, mtime |-> 0] ELSE ctl

\* GET /prep (main.py 292-312): stop_task, the removal of the input files
\* and of the results, then start_task(s.cfg.inputs, ...); the session keeps
\* its Config, so no new Operation is made
SessionPrep ==
    LET stopped == sess.operation # "None"
        ctl == ControlAfterRmtree(ControlAfterStopTask(sess.operation))
        \* start_task sees the operation stop_task left: None
        clears == StartTaskClears("None")
    IN  /\ control_file' = IF clears THEN [exists |-> FALSE, mtime |-> 0]
                           ELSE ctl
        /\ sess' = [operation |-> "inputs", prev_stopped |-> stopped,
                    stop_after_start |-> FALSE]
        /\ bg_task' = [state |-> "added", first_check |-> "none",
                       orphan |-> bg_task.orphan
                                    \/ bg_task.state \in {"added", "running"}]
        /\ UNCHANGED <<log_file, clock, handlers, ctl_under_results>>
        /\ UNCHANGED <<runvars, prepvars, restvars, thvars, pfvars, dsvars>>

\* GET /oknew, GET /run/stop (main.py 137-141, 491-497): stop_task
SessionStopTask ==
    /\ control_file' = ControlAfterStopTask(sess.operation)
    /\ sess' = [sess EXCEPT
                  !.operation = "None",
                  !.stop_after_start =
                      @ \/ (sess.operation # "None"
                              /\ bg_task.state = "added")]
    /\ UNCHANGED <<log_file, clock, handlers, bg_task, ctl_under_results>>
    /\ UNCHANGED <<runvars, prepvars, restvars, thvars, pfvars, dsvars>>

\* GET /prep/status (main.py 381-382): clear_task once the inputs are ready
SessionClearTask ==
    /\ sess.operation # "None"
    /\ sess' = [sess EXCEPT !.operation = "None"]
    /\ UNCHANGED <<opvars, bg_task, ctl_under_results>>
    /\ UNCHANGED <<runvars, prepvars, restvars, thvars, pfvars, dsvars>>

\* prep_data -> prepare_inputs: the first stop check of the task
\* (stop_fn of process_google_buildings, raise_if_stopped of flows.py 55)
TaskFirstCheck ==
    /\ bg_task.state = "added"
    /\ bg_task' = [bg_task EXCEPT
                     !.state = IF is_stopped THEN "cancelled" ELSE "running",
                     !.first_check = IF is_stopped THEN "true" ELSE "false"]
    /\ UNCHANGED <<opvars, sess, ctl_under_results>>
    /\ UNCHANGED <<runvars, prepvars, restvars, thvars, pfvars, dsvars>>

\* prep_data (main.py 613-622): the task ends with clean_fn(), which is
\* s.clear_task
TaskDone ==
    /\ bg_task.state \in {"running", "cancelled"}
    /\ bg_task' = [bg_task EXCEPT !.state = "done"]
    /\ sess' = [sess EXCEPT !.operation = "None"]
    /\ UNCHANGED <<opvars, ctl_under_results>>
    /\ UNCHANGED <<runvars, prepvars, restvars, thvars, pfvars, dsvars>>

\* the task that was running when /prep added the next one ends: clean_fn()
OrphanDone ==
    /\ bg_task.orphan
    /\ bg_task' = [bg_task EXCEPT !.orphan = FALSE]
    /\ sess' = [sess EXCEPT !.operation = "None"]
    /\ UNCHANGED <<opvars, ctl_under_results>>
    /\ UNCHANGED <<runvars, prepvars, restvars, thvars, pfvars, dsvars>>

\* a session without a task; the paths of the control file come from the
\* configuration
InitSession ==
    /\ sess = [operation |-> "None", prev_stopped |-> FALSE,
               stop_after_start |-> FALSE]
    /\ bg_task = [state |-> "none", first_check |-> "none", orphan |-> FALSE]
    /\ ctl_under_results \in BOOLEAN

InitSessionTasks ==
    /\ InitOperation /\ RunIdle /\ PrepIdle
    /\ InitStop /\ ClIdle /\ CmdIdle /\ MgIdle /\ FcIdle /\ PoolIdle
    /\ ThIdle /\ PfIdle /\ DsIdle /\ InitSession

NextSessionTasks ==
    \/ SessionPrep
    \/ SessionStopTask
    \/ SessionClearTask
    \/ TaskFirstCheck
    \/ TaskDone
    \/ OrphanDone
    \/ OpTick
    \/ OpLogWrite
    \/ OpLogRead

SpecSession == InitSessionTasks /\ [][NextSessionTasks]_vars

\* C30: a task started by start_task after the previous task was stopped by
\* stop_task does not inherit the stop signal: its first stop check returns
\* not-stopped unless stop_task was called again after it started.
NewTaskDoesNotInheritStop ==
    (bg_task.first_check # "none" /\ sess.prev_stopped
        /\ ~sess.stop_after_start) =>
            bg_task.first_check = "false"

====
